---- MODULE Spec2Model ----
(***************************************************************************)
(* A model of src/src/main.ts (the final revision, lines 220-541): the     *)
(* glue between the page's controls, the pdfme designer widget, the        *)
(* browser's key-value store and the pdfme generator.                      *)
(*                                                                         *)
(* Representation of JavaScript values                                     *)
(*   - a JS string that ends up in the generator's value map is Str(s);    *)
(*   - the text JSON.stringify produces for a value v is [json |-> v'],    *)
(*     v' being v as JSON can express it (NaN becomes null); a text that   *)
(*     is not JSON is [bad |-> s]; the empty text is [empty |-> TRUE];     *)
(*   - a JS number in a padding tuple is the decimal it prints as:       *)
(*     [num |-> digits, point |-> p, neg |-> b] is 0.d1d2..dk * 10^p,      *)
(*     negated when b; NaN is [nan |-> TRUE], an infinity is               *)
(*     [infinity |-> TRUE, neg |-> b] and null is [null |-> TRUE];         *)
(*   - a position.y is counted in tenths of a unit, so 12.4 is 124 and     *)
(*     277 is 2770; Num(n) is the padding number of n tenths;              *)
(*   - a property that does not exist (undefined) is Undefined.            *)
(***************************************************************************)
EXTENDS Integers, Sequences, FiniteSets, TLC

VARIABLES
    phase,            \* "loading" | "ready" | "partial" | "failed" |
                      \* "crashed": how far the script and its
                      \* loadFonts().then(...) callback have come
    fontFetch,        \* each font: "pending" (fetch in flight), "response"
                      \* (its body is being read), "done", "failed", or
                      \* "none" (never requested)
    template,         \* the module-level `template` read from the store
    designerDoc,      \* the document the designer widget holds
    store,            \* window.localStorage: a function on the keys present
    autosaveChecked,  \* autosaveInput.checked
    paddingInputs,    \* the values of the four padding inputs
    tableData,        \* the sample table the generate handler builds
    readers,          \* the files of FileReaders that have not fired yet
    download,         \* download handlers suspended at an await
    gen,              \* generate handlers suspended at `await generate(...)`
    out,              \* the files an export has written to the user's disk;
                      \* a file is [text, from]: its text and, for the
                      \* record, the live document it was exported from
    last,             \* the handler step that ran last, and its effects
    events            \* the user events so far, counted against MaxEvents

vars == <<phase, fontFetch, template, designerDoc, store, autosaveChecked,
          paddingInputs, tableData, readers, download, gen, out, last, events>>

(***************************************************************************)
(* Bounds of the model and constants of the program.                       *)
(***************************************************************************)
MaxEvents == 2
VisitEvents == 3
MaxRows == 19
MaxPending == 1

SAMPLE_ROWS == 35
PAGE_1_TABLE_ROWS_MAX == 4
PAGE_2_TABLE_ROWS_MAX == 7
HR_FIRST == 28
HR_END == 115

Tenths(u) == u * 10

(***************************************************************************)
(* JavaScript values.                                                      *)
(***************************************************************************)
Undefined == [undefined |-> TRUE]
IsUndefined(v) == "undefined" \in DOMAIN v

Str(s) == [str |-> s]

Digits == <<"0", "1", "2", "3", "4", "5", "6", "7", "8", "9">>
IsDigit(c) == \E d \in DOMAIN Digits : Digits[d] = c
DigitValue(c) == (CHOOSE d \in DOMAIN Digits : Digits[d] = c) - 1

\* the decimal digits of the integer n >= 0
RECURSIVE DigitsOf(_)
DigitsOf(n) ==
    IF n < 10 THEN <<Digits[n + 1]>> ELSE DigitsOf(n \div 10) \o <<Digits[(n % 10) + 1]>>

\* the number of zeros that d begins with
LeadingZeros(d) ==
    (CHOOSE q \in 1..(Len(d) + 1) :
        /\ q > Len(d) \/ d[q] # "0"
        /\ \A j \in 1..(q - 1) : d[j] = "0") - 1

\* the number of zeros that d ends with
TrailingZeros(d) ==
    Len(d) - (CHOOSE q \in 0..Len(d) :
                /\ q = 0 \/ d[q] # "0"
                /\ \A j \in (q + 1)..Len(d) : d[j] = "0")

\* the finite number 0.d1d2..dk * 10^point (negated when neg), written with
\* no zero at either end of its digits; zero has no digit and keeps its sign
Decimal(neg, digits, point) ==
    LET lead == LeadingZeros(digits)
        rest == SubSeq(digits, lead + 1, Len(digits))
        core == SubSeq(rest, 1, Len(rest) - TrailingZeros(rest))
    IN  IF core = <<>>
        THEN [num |-> <<>>, point |-> 0, neg |-> neg]
        ELSE [num |-> core, point |-> point - lead, neg |-> neg]

\* the number of n tenths: Num(124) is 12.4
Num(n) ==
    LET m == IF n < 0 THEN 0 - n ELSE n
    IN  Decimal(n < 0, DigitsOf(m), Len(DigitsOf(m)) - 1)

NaN == [nan |-> TRUE]
Infinity(neg) == [infinity |-> TRUE, neg |-> neg]
Null == [null |-> TRUE]

\* a finite number
IsNum(v) == "num" \in DOMAIN v

Min(a, b) == IF a < b THEN a ELSE b

\* (a variant that rounds down)
CeilDivFloor(a, b) == a \div b

\* Math.ceil(a / b) for a >= 0, b > 0
CeilDiv(a, b) == (a + b - 1) \div b

\* obj[k] = v on a plain object
Put(obj, k, v) == [x \in (DOMAIN obj) \cup {k} |-> IF x = k THEN v ELSE obj[x]]

\* obj[k], undefined when the property does not exist
Get(obj, k) == IF k \in DOMAIN obj THEN obj[k] ELSE Undefined

EmptyObject == [x \in {} |-> Undefined]

\* !!v for what localStorage.getItem returns: a missing key and the empty
\* string are falsy, every other string is truthy
ToBoolean(v) == ~IsUndefined(v) /\ v # Str("") /\ "empty" \notin DOMAIN v

\* Array.prototype.splice(0, k): the removed elements, and what is left
SpliceRemoved(arr, k) == SubSeq(arr, 1, Min(k, Len(arr)))
SpliceRest(arr, k) == SubSeq(arr, Min(k, Len(arr)) + 1, Len(arr))

(***************************************************************************)
(* JSON.  A number JSON cannot express is written as null; everything else *)
(* of a template document is written as it is.                             *)
(***************************************************************************)
\* NaN and the infinities are written as null, -0 as 0
JSONNumber(v) ==
    IF "nan" \in DOMAIN v \/ "infinity" \in DOMAIN v THEN Null
    ELSE IF IsNum(v) /\ v.num = <<>> THEN Num(0)
    ELSE v

JSONBasePdf(bp) ==
    IF "padding" \in DOMAIN bp
    THEN [bp EXCEPT !.padding = [i \in DOMAIN bp.padding |-> JSONNumber(bp.padding[i])]]
    ELSE bp

JSONTemplate(doc) == [doc EXCEPT !.basePdf = JSONBasePdf(doc.basePdf)]

\* JSON.stringify(doc, null, 2) of a template document
JSONstringifyTemplate(doc) == [json |-> JSONTemplate(doc)]

\* JSON.stringify(v) of a value made of strings, arrays and plain objects
JSONstringify(v) == [json |-> v]

\* JSON.parse(text): a SyntaxError unless the text is JSON
JSONparse(text) ==
    IF "json" \in DOMAIN text
    THEN [ok |-> TRUE, value |-> text.json]
    ELSE [ok |-> FALSE, value |-> Undefined]

\* copyOBJ(obj): JSON.stringify(undefined) is undefined, which JSON.parse rejects
copyOBJ(obj) ==
    IF IsUndefined(obj)
    THEN [ok |-> FALSE, value |-> Undefined]
    ELSE JSONparse(JSONstringify(obj))

(***************************************************************************)
(* The fixed field names of the template page.                             *)
(***************************************************************************)
HeaderKeys ==
    <<"header_rect", "logo", "header_rect_hr", "lunu_address", "header_title",
      "period_title", "period", "table_header_rect", "table_header_title",
      "table_period", "table">>

FooterKeys == <<"footer_el_1", "footer_el_2", "footer_el_3", "pages">>

HrCount == HR_END - HR_FIRST

\* 'field' + (28 + i), i = 0..86
HrKey(i) == "field" \o ToString(HR_FIRST + i)

\* (a variant that numbers the header clones from 0)
HeaderElKeyFromZero(pageN, i) == "page_" \o ToString(pageN) \o "_header_el_" \o ToString(i - 1)

HeaderElKey(pageN, i) == "page_" \o ToString(pageN) \o "_header_el_" \o ToString(i)
FooterElKey(pageN, i) == "page_" \o ToString(pageN) \o "_footer_el_" \o ToString(i)
TableHrKey(pageN, i) == "page_" \o ToString(pageN) \o "_table_hr_" \o ToString(i)

PageLabel(pageN, total) ==
    Str("Page " \o ToString(pageN) \o " of " \o ToString(total))

(***************************************************************************)
(* The sample table of the generate handler.                               *)
(***************************************************************************)
row == <<"24 May, 2024\n202401:13:37 PM", "Payment link", "1.09 USD\n1.11 USDT", "-", "1.59 USD">>

\* new Array(n).fill(row).map((el, i) => { copy = copyOBJ(el); copy[3] = i.toString() })
\* (copyOBJ of an array: the array is never undefined here)
SampleTable(n) ==
    [k \in 1..n |-> [JSONparse(JSONstringify(row)).value EXCEPT ![4] = ToString(k - 1)]]

(***************************************************************************)
(* setFooterPositions and setHeaderPositions write position.y of each      *)
(* element of the list; they throw a TypeError on an element that is       *)
(* undefined.  The result is the list after the call.                      *)
(***************************************************************************)
FooterOffsets == <<0, 160, 140, 250>>
HeaderOffsets == <<0, 100, 124, 50, 330, 350, 410, 550, 590, 590, 670>>

SetY(el, y) == [el EXCEPT !.position.y = y]

AnyUndefined(els) == \E i \in DOMAIN els : IsUndefined(els[i])

setFooterPositions(fromY, footerElements) ==
    [i \in DOMAIN footerElements |-> SetY(footerElements[i], fromY + FooterOffsets[i])]

\* (a variant that puts every header element at the anchor itself)
setHeaderPositionsFlat(fromY, headerElements) ==
    [i \in DOMAIN headerElements |-> SetY(headerElements[i], fromY)]

setHeaderPositions(fromY, headerElements) ==
    [i \in DOMAIN headerElements |-> SetY(headerElements[i], fromY + HeaderOffsets[i])]

\* the elements of a list written back under their keys: the list holds the
\* very objects of the schema page, so writing to one writes to the page
WriteBack(schema, keys, els) ==
    [k \in DOMAIN schema |->
        IF \E i \in DOMAIN keys : keys[i] = k
        THEN els[CHOOSE i \in DOMAIN keys : keys[i] = k]
        ELSE schema[k]]

(***************************************************************************)
(* The generate handler up to `await generate(...)`: lines 405-491.        *)
(* The result is [threw, template, inputs, tableData]: whether an          *)
(* exception reached the catch clause and, if none did, the document and   *)
(* the value map handed to the generator and what is left of the table.    *)
(***************************************************************************)
Threw == [threw |-> TRUE, template |-> Undefined, inputs |-> EmptyObject, tableData |-> <<>>]

\* templateJSON.schemas[pageI] = page (pageI counts from 0)
SetSchemaPage(schemas, pageI, page) ==
    IF pageI + 1 <= Len(schemas)
    THEN [schemas EXCEPT ![pageI + 1] = page]
    ELSE Append(schemas, page)

\* the plain object with keys[i] holding vals[i], for i = lo..hi (the keys
\* are distinct)
RECURSIVE ObjectOfRange(_, _, _, _)
ObjectOfRange(keys, vals, lo, hi) ==
    IF lo = hi
    THEN keys[lo] :> vals[lo]
    ELSE LET mid == (lo + hi) \div 2
         IN  ObjectOfRange(keys, vals, lo, mid) @@ ObjectOfRange(keys, vals, mid + 1, hi)

ObjectOf(keys, vals) == ObjectOfRange(keys, vals, 1, Len(keys))

\* one added page: the clones of the header, footer and hr elements under
\* their generated keys, the header and footer clones repositioned
AddedPage(pageN, headerCopies, footerCopies, hrCopies) ==
    LET nextHeaderElements == setHeaderPositions(Tenths(10), headerCopies)
        nextFooterElements == setFooterPositions(Tenths(215), footerCopies)
        hrs == [i \in DOMAIN hrCopies |-> SetY(hrCopies[i], Tenths(90))]
    IN  ObjectOf(
            [i \in DOMAIN headerCopies |-> HeaderElKey(pageN, i)]
                \o [i \in DOMAIN footerCopies |-> FooterElKey(pageN, i)]
                \o [i \in DOMAIN hrCopies |-> TableHrKey(pageN, i)],
            nextHeaderElements \o nextFooterElements \o hrs)

\* the values one added page contributes to the value map, in the order of
\* lines 467-470 (a later assignment to the same key wins)
AddedInputs(inputs, pageN, pagesLength, schema, nextTableData) ==
    LET a == Put(inputs, HeaderElKey(pageN, Len(HeaderKeys)), JSONstringify(nextTableData))
        b == Put(a, HeaderElKey(pageN, 7), schema["period"].content)
        c == Put(b, HeaderElKey(pageN, 10), schema["table_period"].content)
    IN  Put(c, FooterElKey(pageN, Len(FooterKeys)), PageLabel(pageN, pagesLength + 1))

\* (a variant that puts the elements of page 1 themselves on the added page
\* instead of copies of them, so that repositioning them moves page 1 too)
RECURSIVE PageLoopInPlace(_, _, _, _, _, _)
PageLoopInPlace(pageI, pagesLength, st, schema, headerElements, footerElements) ==
    IF ~(pageI < pagesLength + 1) \/ st.threw
    THEN st
    ELSE
        LET nextTableData == SpliceRemoved(st.tableData, PAGE_2_TABLE_ROWS_MAX)
            pageN == pageI + 1
            hrs == [i \in 1..HrCount |-> Get(schema, HrKey(i - 1))]
        IN  IF AnyUndefined(headerElements) \/ AnyUndefined(footerElements) \/ AnyUndefined(hrs)
            THEN [st EXCEPT !.threw = TRUE]
            ELSE
            LET movedHeader == setHeaderPositions(Tenths(10), headerElements)
                movedFooter == setFooterPositions(Tenths(215), footerElements)
                moved == WriteBack(WriteBack(schema, HeaderKeys, movedHeader),
                                   FooterKeys, movedFooter)
                schema1 == [k \in DOMAIN moved |->
                               IF \E i \in 0..(HrCount - 1) : k = HrKey(i)
                               THEN SetY(moved[k], Tenths(90))
                               ELSE moved[k]]
            IN  PageLoopInPlace(pageI + 1, pagesLength,
                    [threw |-> FALSE,
                     schemas |-> SetSchemaPage([st.schemas EXCEPT ![1] = schema1], pageI,
                                    AddedPage(pageN, headerElements, footerElements, hrs)),
                     inputs |-> AddedInputs(st.inputs, pageN, pagesLength, schema, nextTableData),
                     tableData |-> SpliceRest(st.tableData, PAGE_2_TABLE_ROWS_MAX)],
                    schema1, movedHeader, movedFooter)

\* for (let pageI = 1; pageI < pagesLength + 1; pageI++) { ... }
\* st = [threw, schemas, inputs, tableData]
RECURSIVE PageLoop(_, _, _, _, _, _)
PageLoop(pageI, pagesLength, st, schema, headerElements, footerElements) ==
    IF ~(pageI < pagesLength + 1) \/ st.threw
    THEN st
    ELSE
        LET nextTableData == SpliceRemoved(st.tableData, PAGE_2_TABLE_ROWS_MAX)
            pageN == pageI + 1
            headerCopies == [i \in DOMAIN headerElements |-> copyOBJ(headerElements[i])]
            footerCopies == [i \in DOMAIN footerElements |-> copyOBJ(footerElements[i])]
            hrCopies == [i \in 1..HrCount |-> copyOBJ(Get(schema, HrKey(i - 1)))]
            failed == \/ \E i \in DOMAIN headerCopies : ~headerCopies[i].ok
                      \/ \E i \in DOMAIN footerCopies : ~footerCopies[i].ok
                      \/ \E i \in DOMAIN hrCopies : ~hrCopies[i].ok
        IN  IF failed
            THEN [st EXCEPT !.threw = TRUE]
            ELSE PageLoop(pageI + 1, pagesLength,
                    [threw |-> FALSE,
                     schemas |-> SetSchemaPage(st.schemas, pageI,
                                    AddedPage(pageN,
                                        [i \in DOMAIN headerCopies |-> headerCopies[i].value],
                                        [i \in DOMAIN footerCopies |-> footerCopies[i].value],
                                        [i \in DOMAIN hrCopies |-> hrCopies[i].value])),
                     inputs |-> AddedInputs(st.inputs, pageN, pagesLength, schema, nextTableData),
                     tableData |-> SpliceRest(st.tableData, PAGE_2_TABLE_ROWS_MAX)],
                    schema, headerElements, footerElements)

\* (a variant that copies the content of every field, whatever its type)
TextFieldLoopAll(inputs, schema) ==
    [k \in (DOMAIN inputs) \cup (DOMAIN schema) |->
        IF k \in DOMAIN schema THEN schema[k].content ELSE inputs[k]]

\* for (const [key, value] of Object.entries(schema)) if (el.type == "text") inputs[key] = el.content
TextFieldLoop(inputs, schema) ==
    [k \in (DOMAIN inputs) \cup {f \in DOMAIN schema : schema[f].type = "text"} |->
        IF k \in DOMAIN schema /\ schema[k].type = "text"
        THEN schema[k].content
        ELSE inputs[k]]

\* JSON.stringify(designer.getTemplate(), null, 2)
getTemplateJSONStringOf(doc) == JSONstringifyTemplate(doc)

GenerateBuild(doc, table) ==
    LET templateJSON == JSONparse(getTemplateJSONStringOf(doc)).value
    IN
    IF Len(templateJSON.schemas) = 0
    THEN Threw       \* schema is undefined: schema.header_rect is a TypeError
    ELSE
    LET schema == templateJSON.schemas[1]
        headerElements == [i \in DOMAIN HeaderKeys |-> Get(schema, HeaderKeys[i])]
        footerElements == [i \in DOMAIN FooterKeys |-> Get(schema, FooterKeys[i])]
    IN
    IF AnyUndefined(footerElements)
    THEN Threw       \* setFooterPositions reads .position of undefined
    ELSE IF Len(table) > PAGE_1_TABLE_ROWS_MAX
    THEN
        LET inputs1 == Put(EmptyObject, "table",
                           JSONstringify(SpliceRemoved(table, PAGE_1_TABLE_ROWS_MAX)))
            rest == SpliceRest(table, PAGE_1_TABLE_ROWS_MAX)
            footer1 == setFooterPositions(
                           Tenths(277) - (Tenths(21) * (PAGE_1_TABLE_ROWS_MAX - 1)),
                           footerElements)
            schema1 == WriteBack(schema, FooterKeys, footer1)
            pagesLength == CeilDiv(Len(rest), PAGE_2_TABLE_ROWS_MAX)
            st == PageLoop(1, pagesLength,
                     [threw |-> FALSE,
                      schemas |-> [templateJSON.schemas EXCEPT ![1] = schema1],
                      inputs |-> inputs1,
                      tableData |-> rest],
                     schema1, headerElements, footer1)
        IN  IF st.threw
            THEN Threw
            ELSE
            LET label == PageLabel(1, pagesLength + 1)
                schema2 == [st.schemas[1] EXCEPT !["pages"].content = label]
                inputs2 == Put(st.inputs, "pages", label)
            IN  [threw |-> FALSE,
                 template |-> [templateJSON EXCEPT !.schemas = [st.schemas EXCEPT ![1] = schema2]],
                 inputs |-> TextFieldLoop(inputs2, schema2),
                 tableData |-> st.tableData]
    ELSE
        LET inputs1 == Put(EmptyObject, "table", JSONstringify(table))
            footer1 == setFooterPositions(
                           Tenths(277) - (Tenths(21) * (Len(table) - 1)),
                           footerElements)
            schema1 == WriteBack(schema, FooterKeys, footer1)
            inputs2 == Put(inputs1, "pages", Str("Page 1 of 1"))
        IN  [threw |-> FALSE,
             template |-> [templateJSON EXCEPT !.schemas[1] = schema1],
             inputs |-> TextFieldLoop(inputs2, schema1),
             tableData |-> table]

(***************************************************************************)
(* Template documents.  The program ships no template: these are the       *)
(* documents the widget is given (from the store or an upload).  The       *)
(* layout page holds the fixed-name fields; a variant changes the type of  *)
(* `pages` or `table`, leaves fields out or has further pages.             *)
(***************************************************************************)
MaxExtraPages == 6

HrKeys == {HrKey(i) : i \in 0..(HrCount - 1)}
FixedKeys == {HeaderKeys[i] : i \in DOMAIN HeaderKeys}
             \cup {FooterKeys[i] : i \in DOMAIN FooterKeys} \cup HrKeys

Field(type, content, y) == [type |-> type, content |-> content, position |-> [x |-> 100, y |-> y]]

LayoutType(k) ==
    IF k \in {"header_rect", "table_header_rect"} THEN "rectangle"
    ELSE IF k = "logo" THEN "image"
    ELSE IF k = "table" THEN "table"
    ELSE IF k = "header_rect_hr" \/ k \in HrKeys THEN "line"
    ELSE "text"

LayoutY(k) ==
    IF \E i \in DOMAIN HeaderKeys : HeaderKeys[i] = k
    THEN 13 + 20 * (CHOOSE i \in DOMAIN HeaderKeys : HeaderKeys[i] = k)
    ELSE IF \E i \in DOMAIN FooterKeys : FooterKeys[i] = k
    THEN 2603 + 20 * (CHOOSE i \in DOMAIN FooterKeys : FooterKeys[i] = k)
    ELSE IF k \in HrKeys THEN 1007
    ELSE 307

LayoutContent(k) ==
    IF k = "table" THEN Str("[[\"a\",\"b\",\"c\",\"d\",\"e\"]]")
    ELSE IF k = "pages" THEN Str("Page X of Y")
    ELSE Str("<" \o k \o ">")

\* fields of the layout that the handler does not name
FreeKeys == {"field1", "field2"}

LayoutPage(pagesType, tableType, absent) ==
    [k \in (FixedKeys \cup FreeKeys) \ absent |->
        Field(IF k = "pages" THEN pagesType
              ELSE IF k = "table" THEN tableType
              ELSE IF k = "field1" THEN "text"
              ELSE IF k = "field2" THEN "image"
              ELSE LayoutType(k),
              LayoutContent(k), LayoutY(k))]

\* a further page of the stored template
OtherPage(p) == [k \in {"note_" \o ToString(p)} |-> Field("text", Str("note"), 500)]

CustomPdf(padding) == [width |-> 2100, height |-> 2970, padding |-> padding]

ZeroPadding == [i \in 1..4 |-> Num(0)]

LayoutDoc(pagesType, tableType, absent, extra) ==
    [basePdf |-> CustomPdf(ZeroPadding),
     schemas |-> <<LayoutPage(pagesType, tableType, absent)>>
                 \o [p \in 1..extra |-> OtherPage(p + 1)]]

StandardDoc == LayoutDoc("text", "table", {}, 0)

\* a document with no schema page at all
NoPageDoc == [basePdf |-> CustomPdf(ZeroPadding), schemas |-> <<>>]

\* BLANK_PDF of @pdfme/common: a base document without a padding tuple
BLANK_PDF == [data |-> "BLANK_PDF"]

\* the built-in blank document of lines 262-265
BlankDoc == [basePdf |-> BLANK_PDF, schemas |-> <<>>]

(***************************************************************************)
(* The state the handlers share.                                           *)
(***************************************************************************)
\* the files on the user's disk that an export has written
NoFiles == {}

\* a file with the given text; `from` is the document an export wrote it
\* from, Undefined for a file that is no export
File(text, from) == [text |-> text, from |-> from]

\* what a handler step did besides changing the state: the message of its
\* console.error, the blob URLs it created and revoked, the tabs it opened,
\* how often the onChangeTemplate callback ran, and whether an exception
\* left the handler
Effect(op) == [op |-> op, logged |-> "", blobUrlsCreated |-> 0, blobUrlsRevoked |-> 0,
               tabsOpened |-> 0, callbacks |-> 0, escaped |-> FALSE]

\* console.error(msg, error)
Logged(e, msg) == [e EXCEPT !.logged = msg]

\* the handlers registered before the padding block (lines 328-510), and
\* those of the padding inputs and of the widget (lines 512-538)
Handlers == phase \in {"ready", "partial"}
AllHandlers == phase = "ready"

\* getTemplateJSONString(): JSON.stringify(designer.getTemplate(), null, 2)
getTemplateJSONString == getTemplateJSONStringOf(designerDoc)

\* getTemplateJSON(): JSON.parse(getTemplateJSONString())
getTemplateJSON == JSONparse(getTemplateJSONString).value

\* saveTemplate(): window.localStorage.setItem("template", getTemplateJSONString())
\* with the document doc in the widget
saveTemplate(st, doc) == Put(st, "template", getTemplateJSONStringOf(doc))

\* designer.onChangeTemplate(() => { if (autosaveInput.checked) saveTemplate() })
onChangeTemplate(st, doc) == IF autosaveChecked THEN saveTemplate(st, doc) ELSE st

(***************************************************************************)
(* Numbers in the padding inputs.  An input's value is a sequence of       *)
(* characters.                                                             *)
(***************************************************************************)
\* StrWhiteSpaceChar: tab, line feed, vertical tab, form feed, carriage
\* return, space, no-break space, U+FEFF and U+1680.  (The space separators
\* U+2000 to U+200A, U+202F, U+205F and U+3000 and the line terminators
\* U+2028 and U+2029 belong to it too, but cannot be written in a string
\* of this language.)
WhiteSpace == {" ", "\t", "\n", "\r", "\f", "", " ", "﻿", " "}

\* the number of white space characters of s from position p on
WhiteSpaceRun(s, p) ==
    (CHOOSE q \in p..(Len(s) + 1) :
        /\ q > Len(s) \/ s[q] \notin WhiteSpace
        /\ \A j \in p..(q - 1) : s[j] \in WhiteSpace) - p

\* the number of digits of s from position p on
DigitRun(s, p) ==
    (CHOOSE q \in p..(Len(s) + 1) :
        /\ q > Len(s) \/ ~IsDigit(s[q])
        /\ \A j \in p..(q - 1) : IsDigit(s[j])) - p

\* the value of the k digits of s from position p on
RECURSIVE DigitsValue(_, _, _)
DigitsValue(s, p, k) ==
    IF k = 0 THEN 0 ELSE 10 * DigitsValue(s, p, k - 1) + DigitValue(s[p + k - 1])

\* s has the word w at position p
StartsWith(s, p, w) == p + Len(w) - 1 <= Len(s) /\ SubSeq(s, p, p + Len(w) - 1) = w

\* the value of an exponent written with the digits d, or `most` when it
\* is greater than that
ExponentValue(d, most) ==
    LET sig == SubSeq(d, LeadingZeros(d) + 1, Len(d))
    IN  IF Len(sig) > Len(DigitsOf(most)) THEN most
        ELSE Min(DigitsValue(sig, 1, Len(sig)), most)

(***************************************************************************)
(* A number is an IEEE 754 double.  The natural numbers of the conversion  *)
(* are sequences of base-10000 digits, the lowest first, <<>> for zero.    *)
(***************************************************************************)
\* the greatest element of a set of integers
Greatest(S) == CHOOSE i \in S : \A j \in S : j <= i

\* without the zeros on top
BigTrim(a) ==
    LET nz == {i \in DOMAIN a : a[i] # 0}
    IN  IF nz = {} THEN <<>> ELSE SubSeq(a, 1, Greatest(nz))

\* digit i of a, zero above its top
BigDigit(a, i) == IF i \in DOMAIN a THEN a[i] ELSE 0

\* the number whose digit i is worth s[i] < 20000: position i hands on a
\* carry when a position below makes one and those between are all 9999
BigCarried(s) ==
    LET carry(i) == \E j \in 1..i : s[j] >= 10000 /\ \A m \in (j + 1)..i : s[m] = 9999
    IN  BigTrim([i \in 1..(Len(s) + 1) |->
                    (BigDigit(s, i) + (IF i > 1 /\ carry(i - 1) THEN 1 ELSE 0)) % 10000])

BigAdd(a, b) ==
    BigCarried([i \in 1..(IF Len(a) < Len(b) THEN Len(b) ELSE Len(a)) |->
                   BigDigit(a, i) + BigDigit(b, i)])

\* a - b for a >= b: position i borrows when a position below does and
\* those between are equal
BigSub(a, b) ==
    LET borrow(i) == \E j \in 1..i : a[j] < BigDigit(b, j)
                                     /\ \A m \in (j + 1)..i : a[m] = BigDigit(b, m)
    IN  BigTrim([i \in 1..Len(a) |->
                    (a[i] - BigDigit(b, i) - (IF i > 1 /\ borrow(i - 1) THEN 1 ELSE 0)
                        + 10000) % 10000])

BigLess(a, b) ==
    IF Len(a) # Len(b) THEN Len(a) < Len(b)
    ELSE LET differ == {i \in DOMAIN a : a[i] # b[i]}
         IN  differ # {} /\ a[Greatest(differ)] < b[Greatest(differ)]

\* a * m for m < 10000: the low half of each product and the high half of
\* the one below
BigTimes(a, m) ==
    BigCarried([i \in 1..(Len(a) + 1) |->
                   ((BigDigit(a, i) * m) % 10000) + ((BigDigit(a, i - 1) * m) \div 10000)])

\* a * 2^k, by halves of k
RECURSIVE BigTimesPow2(_, _)
BigTimesPow2(a, k) ==
    IF a = <<>> THEN <<>>
    ELSE IF k <= 13 THEN BigTimes(a, 2 ^ k)
    ELSE BigTimesPow2(BigTimesPow2(a, 13 * (((k \div 13) + 1) \div 2)),
                      k - 13 * (((k \div 13) + 1) \div 2))

\* a * 10^k
BigTimesPow10(a, k) ==
    IF a = <<>> THEN <<>>
    ELSE [i \in 1..(k \div 4) |-> 0] \o BigTimes(a, 10 ^ (k % 4))

\* the number written with the decimal digits d, four of them to a digit
\* of the number
BigOfDigits(d) ==
    LET n == Len(d)
        from(i) == IF n - 4 * i + 1 < 1 THEN 1 ELSE n - 4 * i + 1
    IN  BigTrim([i \in 1..((n + 3) \div 4) |->
                    DigitsValue(d, from(i), n - 4 * i + 5 - from(i))])

\* the number of decimal digits of a
DecimalLength(a) ==
    IF a = <<>> THEN 0 ELSE 4 * (Len(a) - 1) + Len(DigitsOf(a[Len(a)]))

\* the greatest d in lo..hi with d * t <= n
RECURSIVE QuotientDigit(_, _, _, _)
QuotientDigit(n, t, lo, hi) ==
    IF lo = hi THEN lo
    ELSE IF BigLess(n, BigTimes(t, (lo + hi + 1) \div 2))
    THEN QuotientDigit(n, t, lo, ((lo + hi + 1) \div 2) - 1)
    ELSE QuotientDigit(n, t, (lo + hi + 1) \div 2, hi)

\* n is d * t + r
Remainder(n, t, d) == [d |-> d, r |-> BigSub(n, BigTimes(t, d))]

\* the quotient d <= hi and the remainder r of n by t
DivMod(n, t, hi) == Remainder(n, t, QuotientDigit(n, t, 0, hi))

Positive(n) == IF n > 0 THEN n ELSE 0

\* a power of two not above 10^g: 3.321 < log2(10) < 3.322
Pow2Below10(g) ==
    IF g >= 0 THEN (3321 * g) \div 1000 ELSE 0 - (((3322 * (0 - g)) + 999) \div 1000)

\* x.n / x.t * 2^x.b is kept: t is doubled until n < t, then n is doubled
\* until t <= 2n (a normal double) or b = -1021 (a subnormal one)
RECURSIVE BinaryScale(_)
BinaryScale(x) ==
    IF ~BigLess(x.n, x.t)
    THEN BinaryScale([x EXCEPT !.t = BigTimes(@, 2), !.b = @ + 1])
    ELSE IF x.b > 0 - 1021 /\ BigLess(BigTimes(x.n, 2), x.t)
    THEN BinaryScale([x EXCEPT !.n = BigTimes(@, 2), !.b = @ - 1])
    ELSE x

\* the same, begun at the exponent b
BinaryScaleAt(n, t, b) ==
    BinaryScale([n |-> BigTimesPow2(n, Positive(0 - b)),
                 t |-> BigTimesPow2(t, Positive(b)),
                 b |-> b])

\* the same, begun with a power of two that n / t is known to reach, or
\* with the exponent of the subnormal doubles
BinaryScaleFrom(n, t) ==
    BinaryScaleAt(n, t, 0 - Min(1021, 0 - Pow2Below10(DecimalLength(n) - DecimalLength(t) - 1)))

\* w more bits of the quotient x.q, d and the remainder r being those of
\* x.n * 2^w
QuotientBits(x, dm, w) ==
    [n |-> dm.r, q |-> BigAdd(BigTimes(x.q, 2 ^ w), BigTrim(<<dm.d>>)), i |-> x.i - w]

\* the next x.i bits of x.n / t for x.n < t, at most 13 at a time: x.q
\* becomes the quotient so far and x.n the remainder
RECURSIVE BinaryQuotient(_, _)
BinaryQuotient(x, t) ==
    IF x.i = 0 THEN x
    ELSE BinaryQuotient(QuotientBits(x, DivMod(BigTimes(x.n, 2 ^ Min(13, x.i)), t,
                                               (2 ^ Min(13, x.i)) - 1),
                                     Min(13, x.i)), t)

\* the quotient d.q with the remainder d.n of t, rounded to the nearest, a
\* tie going to the even one
RoundedQuotient(d, t) ==
    IF BigLess(t, BigTimes(d.n, 2))
       \/ (BigTimes(d.n, 2) = t /\ d.q # <<>> /\ d.q[1] % 2 = 1)
    THEN BigAdd(d.q, <<1>>)
    ELSE d.q

\* the 53 bits f and the exponent e of a double f * 2^e, f having been
\* rounded
NormalDouble(f, b) ==
    IF f = BigTimesPow2(<<1>>, 53)
    THEN [f |-> BigTimesPow2(<<1>>, 52), e |-> b - 52]
    ELSE [f |-> f, e |-> b - 53]

RoundedDouble(s) ==
    NormalDouble(RoundedQuotient(BinaryQuotient([n |-> s.n, q |-> <<>>, i |-> 53], s.t), s.t),
                 s.b)

\* the double nearest to n / t
NearestDouble(n, t) == RoundedDouble(BinaryScaleFrom(n, t))

\* r / s is the double and r / s + mp / s the upper end of the decimals
\* that round to it: the upper end is 1 or more.  The end itself rounds to
\* the double when the double is even.
HighAtLeastOne(r, s, mp, even) ==
    IF even THEN ~BigLess(BigAdd(r, mp), s) ELSE BigLess(s, BigAdd(r, mp))

\* r is within the lower margin mm
LowWithin(r, mm, even) == IF even THEN ~BigLess(mm, r) ELSE BigLess(r, mm)

\* the decimal exponent x.k with 1/10 <= upper end / 10^k < 1
RECURSIVE DecimalScale(_, _)
DecimalScale(x, even) ==
    IF HighAtLeastOne(x.r, x.s, x.mp, even)
    THEN DecimalScale([x EXCEPT !.s = BigTimes(@, 10), !.k = @ + 1], even)
    ELSE IF ~HighAtLeastOne(BigTimes(x.r, 10), x.s, BigTimes(x.mp, 10), even)
    THEN DecimalScale([x EXCEPT !.r = BigTimes(@, 10), !.mp = BigTimes(@, 10),
                                !.mm = BigTimes(@, 10), !.k = @ - 1], even)
    ELSE x

\* the same, begun at the exponent g
DecimalScaleAt(r, s, mp, mm, g, even) ==
    DecimalScale([r |-> BigTimesPow10(r, Positive(0 - g)),
                  s |-> BigTimesPow10(s, Positive(g)),
                  mp |-> BigTimesPow10(mp, Positive(0 - g)),
                  mm |-> BigTimesPow10(mm, Positive(0 - g)),
                  k |-> g], even)

\* the same, begun with a power of ten that the upper end is known to reach
DecimalScaleFrom(r, s, mp, mm, even) ==
    DecimalScaleAt(r, s, mp, mm, DecimalLength(BigAdd(r, mp)) - DecimalLength(s) - 1, even)

\* the digit d, the rest r being within the lower margin (low) or the
\* upper one (high): the digits end there, with d + 1 when the rest is
\* nearer to the upper end, and with the even one of d and d + 1 when the
\* rest is half way between them
DigitTaken(x, dm, mp, mm, low, high) ==
    [r |-> dm.r, s |-> x.s, mp |-> mp, mm |-> mm,
     digits |-> x.digits
                \o DigitsOf(IF high /\ (\/ ~low
                                        \/ BigLess(x.s, BigTimes(dm.r, 2))
                                        \/ (BigTimes(dm.r, 2) = x.s /\ dm.d % 2 = 1))
                            THEN dm.d + 1 ELSE dm.d),
     done |-> low \/ high]

DigitWithin(x, dm, mp, mm, even) ==
    DigitTaken(x, dm, mp, mm, LowWithin(dm.r, mm, even), HighAtLeastOne(dm.r, x.s, mp, even))

\* the next digit of the shortest decimal that rounds to the double
\* x.r / x.s, the nearest to it when there are several
NextDigit(x, even) ==
    DigitWithin(x, DivMod(BigTimes(x.r, 10), x.s, 9), BigTimes(x.mp, 10), BigTimes(x.mm, 10),
                even)

RECURSIVE ShortestDigits(_, _)
ShortestDigits(x, even) ==
    IF x.done THEN x.digits ELSE ShortestDigits(NextDigit(x, even), even)

\* the decimal 0.d1d2.. * 10^x.k of the digits
ShortestDecimal(neg, x, even) ==
    Decimal(neg, ShortestDigits([r |-> x.r, s |-> x.s, mp |-> x.mp, mm |-> x.mm,
                                 digits |-> <<>>, done |-> FALSE], even), x.k)

\* the double is r / s with r = 2^u * f * 2^e; the decimals that round
\* to it reach up to half the distance to the next double above, mp / s,
\* and down to half the distance to the next one below, mm / s
WithMargins(neg, f, e, u) ==
    ShortestDecimal(neg,
                    DecimalScaleFrom(BigTimesPow2(f, Positive(e) + u),
                                     BigTimesPow2(<<1>>, Positive(0 - e) + u),
                                     BigTimesPow2(<<1>>, Positive(e) + u - 1),
                                     BigTimesPow2(<<1>>, Positive(e)),
                                     f[1] % 2 = 0),
                    f[1] % 2 = 0)

\* the decimal that Number::toString shows for the double f * 2^e.  The
\* next double below is half as far as the one above when f is a power of
\* two.
DoubleToDecimal(neg, f, e) ==
    WithMargins(neg, f, e, IF f = BigTimesPow2(<<1>>, 52) /\ e > 0 - 1074 THEN 2 ELSE 1)

\* the number of the double f * 2^e that d is: zero when it has no bit,
\* an infinity beyond the greatest double
DoubleValue(neg, d) ==
    IF d.f = <<>> THEN Decimal(neg, <<>>, 0)
    ELSE IF d.e > 971 THEN Infinity(neg)
    ELSE DoubleToDecimal(neg, d.f, d.e)

\* the double nearest to a decimal, written as the decimal that toString
\* shows for it.  A decimal of 10^309 or more is beyond every double and
\* one below 10^-324 is nearer to zero than to the least double; a decimal
\* of up to 15 digits between 10^-307 and 10^308 is itself the shortest
\* decimal of its double.
ToDouble(v) ==
    IF v.num = <<>> THEN v
    ELSE IF v.point > 309 THEN Infinity(v.neg)
    ELSE IF v.point < 0 - 323 THEN Decimal(v.neg, <<>>, 0)
    ELSE IF Len(v.num) <= 15 /\ v.point >= 0 - 306 /\ v.point <= 308 THEN v
    ELSE DoubleValue(v.neg,
                     NearestDouble(BigTimesPow10(BigOfDigits(v.num),
                                                 Positive(v.point - Len(v.num))),
                                   BigTimesPow10(<<1>>, Positive(Len(v.num) - v.point))))

\* parseFloat(value): leading white space is skipped; then a sign, then
\* "Infinity" or the longest prefix digits [. digits] [e [sign] digits];
\* NaN when there is neither
parseFloat(s) ==
    LET begin == 1 + WhiteSpaceRun(s, 1)
        signed == begin <= Len(s) /\ s[begin] \in {"-", "+"}
        neg == signed /\ s[begin] = "-"
        start == IF signed THEN begin + 1 ELSE begin
        k == DigitRun(s, start)
        dot == start + k <= Len(s) /\ s[start + k] = "."
        f == IF dot THEN DigitRun(s, start + k + 1) ELSE 0
        digits == SubSeq(s, start, start + k - 1)
                  \o (IF f > 0 THEN SubSeq(s, start + k + 1, start + k + f) ELSE <<>>)
        \* "5." is read whole, "." alone is not a number
        e == start + k + (IF dot /\ (k > 0 \/ f > 0) THEN 1 + f ELSE 0)
        hasE == e <= Len(s) /\ s[e] \in {"e", "E"}
        eSigned == hasE /\ e + 1 <= Len(s) /\ s[e + 1] \in {"-", "+"}
        eStart == IF eSigned THEN e + 2 ELSE e + 1
        x == IF hasE THEN DigitRun(s, eStart) ELSE 0
        \* the digits before the exponent move the point by at most their
        \* number, so that an exponent of 400 more than that gives an
        \* infinity or zero whatever it is
        exponent == IF x = 0 THEN 0
                    ELSE LET m == ExponentValue(SubSeq(s, eStart, eStart + x - 1),
                                                Len(s) + 400)
                         IN  IF eSigned /\ s[e + 1] = "-" THEN 0 - m ELSE m
    IN  IF StartsWith(s, start, <<"I", "n", "f", "i", "n", "i", "t", "y">>)
        THEN Infinity(neg)
        ELSE IF k = 0 /\ f = 0
        THEN NaN
        ELSE ToDouble(Decimal(neg, digits, k + exponent))

RECURSIVE Zeros(_)
Zeros(n) == IF n <= 0 THEN <<>> ELSE <<"0">> \o Zeros(n - 1)

\* Number.prototype.toString() (paddings[i].toString()): with k digits
\* and the point after n of them, plain notation for -6 < n <= 21 and
\* exponent notation otherwise; null has no toString
NumberToString(v) ==
    IF "nan" \in DOMAIN v THEN <<"N", "a", "N">>
    ELSE IF "infinity" \in DOMAIN v
    THEN (IF v.neg THEN <<"-">> ELSE <<>>) \o <<"I", "n", "f", "i", "n", "i", "t", "y">>
    ELSE IF v.num = <<>> THEN <<"0">>
    ELSE
    LET d == v.num
        k == Len(d)
        n == v.point
        e == n - 1
    IN  (IF v.neg THEN <<"-">> ELSE <<>>)
        \o (IF k <= n /\ n <= 21 THEN d \o Zeros(n - k)
            ELSE IF 0 < n /\ n <= 21 THEN SubSeq(d, 1, n) \o <<".">> \o SubSeq(d, n + 1, k)
            ELSE IF 0 - 6 < n /\ n <= 0 THEN <<"0", ".">> \o Zeros(0 - n) \o d
            ELSE <<d[1]>>
                 \o (IF k > 1 THEN <<".">> \o SubSeq(d, 2, k) ELSE <<>>)
                 \o <<"e">> \o (IF e > 0 THEN <<"+">> \o DigitsOf(e)
                                           ELSE <<"-">> \o DigitsOf(0 - e)))

(***************************************************************************)
(* generateButton "click": lines 403-508.                                  *)
(***************************************************************************)
\* (a variant without the catch clause)
GenerateNoCatch(e) == [e EXCEPT !.escaped = TRUE]

\* catch (error) { console.error("PFD generation error:", error) }
GenerateCatch(e) == Logged(e, "PFD generation error:")

\* (a variant that paginates the widget's own document)
GenerateClickInPlace ==
    /\ Handlers
    /\ events < MaxEvents
    /\ Len(gen) < MaxPending
    /\ \E r \in {GenerateBuild(designerDoc, tableData)} :
           /\ gen' = IF r.threw THEN gen
                     ELSE Append(gen, [pages |-> Len(r.template.schemas)])
           /\ designerDoc' = IF r.threw THEN designerDoc ELSE r.template
           /\ last' = [call |-> r]
                       @@ (IF r.threw THEN GenerateCatch(Effect("generate"))
                           ELSE Effect("generate"))
    /\ events' = events + 1
    /\ UNCHANGED <<phase, fontFetch, template, store, autosaveChecked,
                   paddingInputs, tableData, readers, download, out>>

GenerateClick ==
    /\ Handlers
    /\ events < MaxEvents
    /\ Len(gen) < MaxPending
    /\ \E r \in {GenerateBuild(designerDoc, tableData)} :
           /\ gen' = IF r.threw THEN gen
                     ELSE Append(gen, [pages |-> Len(r.template.schemas)])
           /\ last' = [call |-> r]
                       @@ (IF r.threw THEN GenerateCatch(Effect("generate"))
                           ELSE Effect("generate"))
    /\ events' = events + 1
    /\ UNCHANGED <<phase, fontFetch, template, designerDoc, store, autosaveChecked,
                   paddingInputs, tableData, readers, download, out>>

\* `await generate(...)` resolves: the blob, its URL, window.open(url, "_blank")
GenerateResolve ==
    /\ \E i \in DOMAIN gen :
        gen' = SubSeq(gen, 1, i - 1) \o SubSeq(gen, i + 1, Len(gen))
    /\ last' = [Effect("generateResolved") EXCEPT !.blobUrlsCreated = 1, !.tabsOpened = 1]
    /\ UNCHANGED <<phase, fontFetch, template, designerDoc, store, autosaveChecked,
                   paddingInputs, tableData, readers, download, out, events>>

\* `await generate(...)` rejects: the catch clause logs
GenerateReject ==
    /\ \E i \in DOMAIN gen :
        gen' = SubSeq(gen, 1, i - 1) \o SubSeq(gen, i + 1, Len(gen))
    /\ last' = GenerateCatch(Effect("generateRejected"))
    /\ UNCHANGED <<phase, fontFetch, template, designerDoc, store, autosaveChecked,
                   paddingInputs, tableData, readers, download, out, events>>

(***************************************************************************)
(* The generate handler as a function of the document and the sample       *)
(* table: every template variant with every table length.                  *)
(***************************************************************************)
PagesTypes == {"text", "readOnlyText"}
TableTypes == {"table", "text"}

RowCounts == (0..MaxRows) \cup {SAMPLE_ROWS}

\* the documents that hold every fixed-name field
FullDocs ==
    {LayoutDoc(pt, tt, {}, e) : pt \in PagesTypes, tt \in TableTypes, e \in 0..MaxExtraPages}

\* the documents that lack the first page or one fixed-name field
LackingDocs ==
    {LayoutDoc("text", "table", {k}, 0) : k \in FixedKeys} \cup {NoPageDoc, BlankDoc}

GenDocs == FullDocs \cup LackingDocs

\* the table lengths tried with a lacking document: both branches, and the
\* program's own table
LackingRowCounts ==
    {0, PAGE_1_TABLE_ROWS_MAX, PAGE_1_TABLE_ROWS_MAX + 1, SAMPLE_ROWS}

InitGen ==
    /\ phase = "ready"
    /\ fontFetch = [f \in 1..2 |-> "done"]
    /\ \E doc \in GenDocs :
        \E n \in IF doc \in FullDocs THEN RowCounts ELSE LackingRowCounts :
            /\ designerDoc = doc
            /\ tableData = SampleTable(n)
    /\ template = designerDoc
    /\ store = EmptyObject
    /\ autosaveChecked = FALSE
    /\ paddingInputs = [i \in 1..4 |-> <<"0">>]
    /\ readers = <<>>
    /\ download = <<>>
    /\ gen = <<>>
    /\ out = NoFiles
    /\ last = Effect("startup")
    /\ events = MaxEvents - 1      \* one click is looked at

NextGen == GenerateClick \/ GenerateResolve \/ GenerateReject

SpecGen == InitGen /\ [][NextGen]_vars

(***************************************************************************)
(* Startup: lines 261-289.  The script reads the store, starts the two     *)
(* font fetches and, once both have arrived, constructs the widget and     *)
(* registers the handlers.                                                 *)
(***************************************************************************)
Fonts == 1..2       \* HelveticaNowText, HelveticaNowTextBold

\* (a variant that ignores the store)
StartupTemplateBlank(st) == BlankDoc

\* savedTemplate ? JSON.parse(savedTemplate) : {basePdf: BLANK_PDF, schemas: []}
\* (undefined when JSON.parse throws: `template` is never initialised)
StartupTemplate(st) ==
    IF ToBoolean(Get(st, "template")) THEN JSONparse(st["template"]).value ELSE BlankDoc

\* JSON.parse(savedTemplate) throws at line 262, at the top level of the
\* script: loadFonts() is never called
StartupThrows(st) ==
    ToBoolean(Get(st, "template")) /\ ~JSONparse(st["template"]).ok

StartupPhase(st) == IF StartupThrows(st) THEN "crashed" ELSE "loading"

StartupFetches(st) == [f \in Fonts |-> IF StartupThrows(st) THEN "none" ELSE "pending"]

\* what the start of the script leaves behind it
StartupEffect(st) == [Effect("startup") EXCEPT !.escaped = StartupThrows(st)]

\* the script starts (or the page is loaded again) with the store st
Started(st) ==
    /\ phase' = StartupPhase(st)
    /\ fontFetch' = StartupFetches(st)
    /\ template' = StartupTemplate(st)
    /\ designerDoc' = Undefined
    /\ autosaveChecked' = FALSE
    /\ paddingInputs' = [i \in 1..4 |-> <<>>]
    /\ readers' = <<>>
    /\ download' = <<>>
    /\ gen' = <<>>

\* const response = await fetch(url): the fetch resolves, and the callback
\* goes on to response.arrayBuffer() and is suspended again (whether or
\* not the other font has failed meanwhile)
FontFetched(f) ==
    /\ fontFetch[f] = "pending"
    /\ fontFetch' = [fontFetch EXCEPT ![f] = "response"]
    /\ last' = Effect("fontFetched")
    /\ UNCHANGED <<phase, template, designerDoc, store, autosaveChecked, paddingInputs,
                   tableData, readers, download, gen, out, events>>

\* the fetch or the reading of its body rejects.  The first rejection
\* rejects Promise.all and with it the promise of loadFonts(), which has no
\* rejection handler: the then-callback never runs.  A later rejection of
\* the other font goes to Promise.all, which has settled, and is dropped.
FontFailed(f) ==
    /\ fontFetch[f] \in {"pending", "response"}
    /\ fontFetch' = [fontFetch EXCEPT ![f] = "failed"]
    /\ phase' = "failed"
    /\ last' = [Effect("fontFailed") EXCEPT !.escaped = (phase = "loading")]
    /\ UNCHANGED <<template, designerDoc, store, autosaveChecked, paddingInputs,
                   tableData, readers, download, gen, out, events>>

\* the values the padding inputs are given at lines 513-521; paddings[i]
\* of null throws, and the inputs from there on keep their value
InitialPaddingInputs(tpl) ==
    IF "padding" \in DOMAIN tpl.basePdf
    THEN [i \in 1..4 |->
            IF \A j \in 1..i : IsNum(tpl.basePdf.padding[j])
            THEN NumberToString(tpl.basePdf.padding[i])
            ELSE paddingInputs[i]]
    ELSE [i \in 1..4 |-> <<"0">>]

PaddingInitThrows(tpl) ==
    /\ "padding" \in DOMAIN tpl.basePdf
    /\ \E j \in 1..4 : ~IsNum(tpl.basePdf.padding[j])

\* loadFonts().then(font => { new Designer({template, ...}); ... }): the
\* callback, lines 286-540
LoadFontsThen ==
    /\ designerDoc' = template
    /\ autosaveChecked' = ToBoolean(Get(store, "autosave"))
    /\ paddingInputs' = InitialPaddingInputs(template)
    /\ phase' = IF PaddingInitThrows(template) THEN "partial" ELSE "ready"
    /\ last' = [Effect("constructed") EXCEPT !.escaped = PaddingInitThrows(template)]

\* (a variant that goes on as soon as one promise of the list is fulfilled,
\* as Promise.race or Promise.any does)
PromiseAny(f) == TRUE

\* const fontEntries = await Promise.all(fontPromises), at the moment the
\* promise of font f is fulfilled: every other promise has been fulfilled
PromiseAll(f) == \A g \in Fonts \ {f} : fontFetch[g] = "done"

\* const data = await response.arrayBuffer(): the body has arrived and the
\* promise of font f is fulfilled.  With the last of them Promise.all is
\* fulfilled, loadFonts() returns and the then-callback runs, all before
\* the browser takes the next task
FontBodyRead(f) ==
    /\ fontFetch[f] = "response"
    /\ fontFetch' = [fontFetch EXCEPT ![f] = "done"]
    /\ IF phase = "loading" /\ PromiseAll(f)
       THEN LoadFontsThen
       ELSE /\ last' = Effect("fontBodyRead")
            /\ UNCHANGED <<phase, designerDoc, autosaveChecked, paddingInputs>>
    /\ UNCHANGED <<template, store, tableData, readers, download, gen, out, events>>

\* the user loads the page again: the handlers of the page left are gone
Reload ==
    /\ Started(store)
    /\ last' = StartupEffect(store)
    /\ UNCHANGED <<store, tableData, out, events>>

(***************************************************************************)
(* The widget.  designer.updateTemplate(doc) makes doc the widget's        *)
(* document; `notify` is whether the widget reports that to the            *)
(* onChangeTemplate callback, which is registered last (line 534).         *)
(***************************************************************************)
updateTemplate(doc, notify) ==
    [doc |-> doc,
     store |-> IF notify /\ AllHandlers THEN onChangeTemplate(store, doc) ELSE store,
     callbacks |-> IF notify /\ AllHandlers THEN 1 ELSE 0]

\* an edit the user makes in the widget: the text of one field
EditedField(f) ==
    [f EXCEPT !.content = IF @ = Str("edited") THEN Str("edited again") ELSE Str("edited")]

EditedSchemas(schemas) ==
    IF schemas = <<>>
    THEN <<OtherPage(1)>>
    ELSE LET key == IF "period" \in DOMAIN schemas[1] THEN "period"
                    ELSE CHOOSE k \in DOMAIN schemas[1] : TRUE
         IN  [schemas EXCEPT ![1][key] = EditedField(@)]

WidgetEdit ==
    /\ Handlers
    /\ events < MaxEvents
    /\ LET doc == [designerDoc EXCEPT !.schemas = EditedSchemas(@)]
       IN  /\ designerDoc' = doc
           /\ store' = IF AllHandlers THEN onChangeTemplate(store, doc) ELSE store
    /\ last' = [Effect("widgetEdit") EXCEPT !.callbacks = IF AllHandlers THEN 1 ELSE 0]
    /\ events' = events + 1
    /\ UNCHANGED <<phase, fontFetch, template, autosaveChecked, paddingInputs, tableData,
                   readers, download, gen, out>>

(***************************************************************************)
(* uploadInput "change" and the FileReader callbacks: lines 328-352.       *)
(***************************************************************************)
UploadedDoc ==
    [basePdf |-> CustomPdf([i \in 1..4 |-> Num(100)]),
     schemas |-> <<LayoutPage("text", "table", {}), OtherPage(2)>>]

\* the files the user can pick: broken text, an empty file, a template
\* exported on an earlier visit, and whatever an export has written
UploadFiles ==
    {File([bad |-> "{oops"], Undefined), File([empty |-> TRUE], Undefined),
     File(JSONstringifyTemplate(UploadedDoc), UploadedDoc)}
    \cup out

\* target.files[0] of an empty FileList (the file dialog was cancelled)
NoFile == Undefined

\* the change event: a FileReader is made and told to read target.files[0];
\* readAsText(undefined) is a TypeError that leaves the handler, and the
\* reader never fires
UploadChange(file) ==
    /\ Handlers
    /\ events < MaxEvents
    /\ IF file = NoFile
       THEN /\ readers' = readers
            /\ last' = [Effect("upload") EXCEPT !.escaped = TRUE]
       ELSE /\ Len(readers) < MaxPending
            /\ readers' = Append(readers, file)
            /\ last' = Effect("upload")
    /\ events' = events + 1
    /\ UNCHANGED <<phase, fontFetch, template, designerDoc, store, autosaveChecked,
                   paddingInputs, tableData, download, gen, out>>

Without(seq, i) == SubSeq(seq, 1, i - 1) \o SubSeq(seq, i + 1, Len(seq))

\* (a variant that lets the error go)
UploadRethrow(e) == [e EXCEPT !.escaped = TRUE]

\* catch (error) { console.error("JSON Parsing Error:", error) }
UploadCatch(e) == Logged(e, "JSON Parsing Error:")

\* reader.onload
ReaderOnload(i, notify) ==
    /\ i \in DOMAIN readers
    /\ readers' = Without(readers, i)
    /\ LET text == readers[i].text
           json == JSONparse(text)
       IN  IF "empty" \in DOMAIN text
           THEN /\ UNCHANGED <<designerDoc, store>>       \* e.target.result is ""
                /\ last' = [file |-> readers[i]] @@ Effect("readerOnload")
           ELSE IF ~json.ok
           THEN /\ UNCHANGED <<designerDoc, store>>
                /\ last' = [file |-> readers[i]] @@ UploadCatch(Effect("readerOnload"))
           ELSE \E updated \in {updateTemplate(json.value, notify)} :
                /\ designerDoc' = updated.doc
                /\ store' = updated.store
                /\ last' = [file |-> readers[i]]
                            @@ [Effect("readerOnload") EXCEPT !.callbacks = updated.callbacks]
    /\ UNCHANGED <<phase, fontFetch, template, autosaveChecked, paddingInputs, tableData,
                   download, gen, out, events>>

\* reader.onerror
ReaderOnerror(i) ==
    /\ i \in DOMAIN readers
    /\ readers' = Without(readers, i)
    /\ last' = Logged(Effect("readerOnerror"), "File reading error:")
    /\ UNCHANGED <<phase, fontFetch, template, designerDoc, store, autosaveChecked,
                   paddingInputs, tableData, download, gen, out, events>>


(***************************************************************************)
(* downloadButton "click": lines 354-383.                                  *)
(***************************************************************************)
\* the awaits of the native path, in order
DownloadStages == <<"showSaveFilePicker", "createWritable", "write", "close">>

\* catch (error) { console.error('File save error:', error) }
DownloadCatch(e) == Logged(e, "File save error:")

\* native: whether window.showSaveFilePicker exists
DownloadClick(native) ==
    /\ Handlers
    /\ events < MaxEvents
    /\ LET json == getTemplateJSONString
       IN  IF native
           THEN /\ Len(download) < MaxPending
                /\ download' = Append(download,
                                    [stage |-> 1, json |-> json, from |-> designerDoc])
                /\ out' = out
                /\ last' = [native |-> TRUE, json |-> json, suggestedName |-> "template"]
                            @@ Effect("download")
           ELSE \* the blob, its URL, the anchor's click, the URL revoked
                /\ download' = download
                /\ out' = out \cup {File(json, designerDoc)}
                /\ last' = [native |-> FALSE, json |-> json, anchor |-> "template.json"]
                            @@ [Effect("download") EXCEPT !.blobUrlsCreated = 1,
                                                          !.blobUrlsRevoked = 1]
    /\ events' = events + 1
    /\ UNCHANGED <<phase, fontFetch, template, designerDoc, store, autosaveChecked,
                   paddingInputs, tableData, readers, gen>>

\* (a variant that serializes the document only when it comes to write it)
DownloadResolveAtWrite(i) ==
    /\ i \in DOMAIN download
    /\ IF download[i].stage < Len(DownloadStages)
       THEN /\ download' = [download EXCEPT
                                ![i].stage = @ + 1,
                                ![i].json = IF DownloadStages[download[i].stage] = "write"
                                            THEN getTemplateJSONString
                                            ELSE @]
            /\ out' = out
       ELSE /\ download' = Without(download, i)
            /\ out' = out \cup {File(download[i].json, download[i].from)}
    /\ last' = [stage |-> DownloadStages[download[i].stage], json |-> download[i].json]
                @@ Effect("downloadResolved")
    /\ UNCHANGED <<phase, fontFetch, template, designerDoc, store, autosaveChecked,
                   paddingInputs, tableData, readers, gen, events>>

\* (a variant that also puts the document in the store once the file is
\* closed)
DownloadResolveSaves(i) ==
    /\ i \in DOMAIN download
    /\ IF download[i].stage < Len(DownloadStages)
       THEN /\ download' = [download EXCEPT ![i].stage = @ + 1]
            /\ out' = out
            /\ store' = store
       ELSE /\ download' = Without(download, i)
            /\ out' = out \cup {File(download[i].json, download[i].from)}
            /\ store' = saveTemplate(store, designerDoc)
    /\ last' = [stage |-> DownloadStages[download[i].stage], json |-> download[i].json]
                @@ Effect("downloadResolved")
    /\ UNCHANGED <<phase, fontFetch, template, designerDoc, autosaveChecked,
                   paddingInputs, tableData, readers, gen, events>>

\* the promise a download handler awaits resolves; after close() the file
\* holds the text
DownloadResolve(i) ==
    /\ i \in DOMAIN download
    /\ IF download[i].stage < Len(DownloadStages)
       THEN /\ download' = [download EXCEPT ![i].stage = @ + 1]
            /\ out' = out
       ELSE /\ download' = Without(download, i)
            /\ out' = out \cup {File(download[i].json, download[i].from)}
    /\ last' = [stage |-> DownloadStages[download[i].stage], json |-> download[i].json]
                @@ Effect("downloadResolved")
    /\ UNCHANGED <<phase, fontFetch, template, designerDoc, store, autosaveChecked,
                   paddingInputs, tableData, readers, gen, events>>

\* (a variant that falls back to the blob download when the promise rejects)
DownloadRejectFallback(i) ==
    /\ i \in DOMAIN download
    /\ download' = Without(download, i)
    /\ out' = out \cup {File(download[i].json, download[i].from)}
    /\ last' = [stage |-> DownloadStages[download[i].stage], json |-> download[i].json]
                @@ [DownloadCatch(Effect("downloadRejected")) EXCEPT
                        !.blobUrlsCreated = 1, !.blobUrlsRevoked = 1]
    /\ UNCHANGED <<phase, fontFetch, template, designerDoc, store, autosaveChecked,
                   paddingInputs, tableData, readers, gen, events>>

\* the promise rejects (the dialog is dismissed, the write fails)
DownloadReject(i) ==
    /\ i \in DOMAIN download
    /\ download' = Without(download, i)
    /\ last' = [stage |-> DownloadStages[download[i].stage], json |-> download[i].json]
                @@ DownloadCatch(Effect("downloadRejected"))
    /\ UNCHANGED <<phase, fontFetch, template, designerDoc, store, autosaveChecked,
                   paddingInputs, tableData, readers, gen, out, events>>

(***************************************************************************)
(* saveButton "click" (lines 385-389) and autosaveInput "change" (lines    *)
(* 391-400).                                                               *)
(***************************************************************************)
SaveClick ==
    /\ Handlers
    /\ events < MaxEvents
    /\ store' = saveTemplate(store, designerDoc)
    /\ last' = Effect("save")
    /\ events' = events + 1
    /\ UNCHANGED <<phase, fontFetch, template, designerDoc, autosaveChecked, paddingInputs,
                   tableData, readers, download, gen, out>>

\* window.localStorage.removeItem(k)
RemoveItem(st, k) == [x \in (DOMAIN st) \ {k} |-> st[x]]

\* (a variant whose handler writes the key and never removes it)
AutosaveChangeSetOnly ==
    /\ Handlers
    /\ events < MaxEvents
    /\ autosaveChecked' = ~autosaveChecked
    /\ store' = Put(store, "autosave", Str("true"))
    /\ last' = Effect("autosave")
    /\ events' = events + 1
    /\ UNCHANGED <<phase, fontFetch, template, designerDoc, paddingInputs, tableData,
                   readers, download, gen, out>>

\* the user toggles the checkbox, then the handler mirrors it to the store
AutosaveChange ==
    /\ Handlers
    /\ events < MaxEvents
    /\ autosaveChecked' = ~autosaveChecked
    /\ store' = IF autosaveChecked'
                THEN Put(store, "autosave", Str("true"))
                ELSE RemoveItem(store, "autosave")
    /\ last' = Effect("autosave")
    /\ events' = events + 1
    /\ UNCHANGED <<phase, fontFetch, template, designerDoc, paddingInputs, tableData,
                   readers, download, gen, out>>

(***************************************************************************)
(* The padding inputs' "change": lines 523-531.  Input i (1..4) is top,    *)
(* right, bottom, left.                                                    *)
(***************************************************************************)
PaddingValues == {<<"1", "2">>, <<>>}

\* template.basePdf.padding[i] = parseFloat(value)
SetPadding(tpl, i, value) == [tpl EXCEPT !.basePdf.padding[i] = parseFloat(value)]

PaddingChange(i, value, notify) ==
    /\ AllHandlers
    /\ events < MaxEvents
    /\ paddingInputs' = [paddingInputs EXCEPT ![i] = value]
    /\ \E tpl \in {getTemplateJSON} :
           IF "padding" \in DOMAIN tpl.basePdf
           THEN \E updated \in {updateTemplate(SetPadding(tpl, i, value), notify)} :
                /\ designerDoc' = updated.doc
                /\ store' = updated.store
                /\ last' = [i |-> i, value |-> value]
                            @@ [Effect("padding") EXCEPT !.callbacks = updated.callbacks]
           ELSE \* padding is undefined: the assignment is a TypeError
                /\ UNCHANGED <<designerDoc, store>>
                /\ last' = [i |-> i, value |-> value]
                            @@ [Effect("padding") EXCEPT !.escaped = TRUE]
    /\ events' = events + 1
    /\ UNCHANGED <<phase, fontFetch, template, autosaveChecked, tableData, readers,
                   download, gen, out>>

(***************************************************************************)
(* The page: every handler, from a store that is empty or holds what an    *)
(* earlier visit left.                                                     *)
(***************************************************************************)
\* the template an earlier visit stored after a padding input was cleared:
\* parseFloat("") is NaN, which JSON.stringify writes as null
ClearedPaddingDoc == SetPadding(StandardDoc, 1, <<>>)

StoredDocs == {StandardDoc, ClearedPaddingDoc}

InitialStores ==
    {EmptyObject, Put(EmptyObject, "autosave", Str("true"))}
    \cup {Put(EmptyObject, "template", JSONstringifyTemplate(doc)) : doc \in StoredDocs}
    \cup {Put(Put(EmptyObject, "template", JSONstringifyTemplate(doc)), "autosave", Str("true")) :
             doc \in StoredDocs}

Init ==
    /\ store \in InitialStores
    /\ phase = StartupPhase(store)
    /\ fontFetch = StartupFetches(store)
    /\ template = StartupTemplate(store)
    /\ designerDoc = Undefined
    /\ autosaveChecked = FALSE
    /\ paddingInputs = [i \in 1..4 |-> <<>>]
    /\ tableData = SampleTable(SAMPLE_ROWS)
    /\ readers = <<>>
    /\ download = <<>>
    /\ gen = <<>>
    /\ out = NoFiles
    /\ last = StartupEffect(store)
    /\ events = 0

Next ==
    \/ \E f \in Fonts : FontFetched(f)
    \/ \E f \in Fonts : FontBodyRead(f)
    \/ \E f \in Fonts : FontFailed(f)
    \/ Reload
    \/ WidgetEdit
    \/ \E file \in UploadFiles \cup {NoFile} : UploadChange(file)
    \/ \E i \in 1..MaxPending + 1, notify \in BOOLEAN : ReaderOnload(i, notify)
    \/ \E i \in 1..MaxPending + 1 : ReaderOnerror(i)
    \/ \E native \in BOOLEAN : DownloadClick(native)
    \/ \E i \in 1..MaxPending + 1 : DownloadResolve(i)
    \/ \E i \in 1..MaxPending + 1 : DownloadReject(i)
    \/ SaveClick
    \/ AutosaveChange
    \/ GenerateClick
    \/ GenerateResolve
    \/ GenerateReject
    \/ \E i \in 1..4, value \in PaddingValues, notify \in BOOLEAN : PaddingChange(i, value, notify)

Spec == Init /\ [][Next]_vars

\* a visit of VisitEvents user events that begins with a template in the
\* store: long enough for an edit, an export and an import
InitVisit ==
    /\ store = Put(EmptyObject, "template", JSONstringifyTemplate(StandardDoc))
    /\ phase = StartupPhase(store)
    /\ fontFetch = StartupFetches(store)
    /\ template = StartupTemplate(store)
    /\ designerDoc = Undefined
    /\ autosaveChecked = FALSE
    /\ paddingInputs = [i \in 1..4 |-> <<>>]
    /\ tableData = SampleTable(SAMPLE_ROWS)
    /\ readers = <<>>
    /\ download = <<>>
    /\ gen = <<>>
    /\ out = NoFiles
    /\ last = StartupEffect(store)
    /\ events = MaxEvents - VisitEvents

SpecVisit == InitVisit /\ [][Next]_vars

(***************************************************************************)
(* Properties of the generate handler (checked under SpecGen).             *)
(***************************************************************************)
\* the live document has exactly one schema page, which holds every
\* fixed-name field
OnePageFullDoc ==
    /\ Len(designerDoc.schemas) = 1
    /\ FixedKeys \subseteq DOMAIN designerDoc.schemas[1]

\* the state right after a generate click
Clicked == last.op = "generate"

\* T is the page total of a table of n > 4 rows: 1 + ceil((n - 4) / 7)
IsTotal(T, n) == T >= 2 /\ 7 * (T - 2) < n - 4 /\ n - 4 <= 7 * (T - 1)

Label(N, T) == [str |-> "Page " \o ToString(N) \o " of " \o ToString(T)]

\* the page total and the labels for a table of n > 4 rows
C1_General ==
    (Clicked /\ OnePageFullDoc /\ Len(tableData) > 4) =>
        /\ ~last.call.threw
        /\ \A T \in 2..(Len(tableData) + 1) :
            IsTotal(T, Len(tableData)) =>
                /\ Len(last.call.template.schemas) = T
                /\ last.call.inputs["pages"] = Label(1, T)
                /\ \A N \in 2..T :
                    last.call.inputs["page_" \o ToString(N) \o "_footer_el_4"] = Label(N, T)
        /\ \E T \in 2..(Len(tableData) + 1) : IsTotal(T, Len(tableData))

\* the program's own sample table: rows rows, 31 left after page 1, 6 pages
C1_DefaultTable(rows) ==
    (Clicked /\ OnePageFullDoc /\ tableData = SampleTable(SAMPLE_ROWS)) =>
        /\ Len(tableData) = rows
        /\ Len(SpliceRest(tableData, 4)) = 31
        /\ ~last.call.threw
        /\ Len(last.call.template.schemas) = 6
        /\ \A N \in 1..6 :
            last.call.inputs[IF N = 1 THEN "pages"
                             ELSE "page_" \o ToString(N) \o "_footer_el_4"] = Label(N, 6)

\* C1 (as amended): for a one-page template holding every fixed-name field
\* and a table of n > 4 rows, the document handed to the generator has
\* T = 1 + ceil((n-4)/7) schema pages, `pages` is "Page 1 of T" and
\* page_N_footer_el_4 is "Page N of T" for N = 2..T; the default sample table
\* has exactly 35 rows, 31 remain after page 1, T = 6 and the labels read
\* "Page 1 of 6" through "Page 6 of 6".
C1_PageCountAndLabels == C1_General /\ C1_DefaultTable(35)

\* C1 (as stated): the same, the default sample table having exactly 39 rows
\* of which 31 remain after page 1.
C1_AsStated == C1_General /\ C1_DefaultTable(39)

C1_Witness ==
    /\ Clicked /\ OnePageFullDoc /\ Len(tableData) = 35
    /\ ~last.call.threw
    /\ Len(last.call.template.schemas) = 6
    /\ last.call.inputs["page_6_footer_el_4"] = Str("Page 6 of 6")

\* C3: for every table of n > 4 rows, `table` holds the first 4 rows, added
\* page N holds the next chunk of 1..7 rows in page_N_header_el_11, the
\* chunks in page order are the table, and the loop leaves no row over.
C3_RowDistribution ==
    (Clicked /\ OnePageFullDoc /\ Len(tableData) > 4) =>
        /\ ~last.call.threw
        /\ last.call.inputs["table"] = [json |-> SubSeq(tableData, 1, 4)]
        /\ \A N \in 2..Len(last.call.template.schemas) :
            LET chunk == last.call.inputs["page_" \o ToString(N) \o "_header_el_11"]
                from == 4 + 7 * (N - 2) + 1
                to == Min(Len(tableData), 4 + 7 * (N - 1))
            IN  /\ from <= to
                /\ chunk = [json |-> SubSeq(tableData, from, to)]
        /\ 4 + 7 * (Len(last.call.template.schemas) - 1) >= Len(tableData)
        /\ last.call.tableData = <<>>

\* the first page is missing, or lacks a fixed-name field
LacksFixedField(doc) ==
    \/ Len(doc.schemas) = 0
    \/ ~(FixedKeys \subseteq DOMAIN doc.schemas[1])

\* C5: when the live document has no first schema page or its first page
\* lacks a header, footer or field28..field114 field (the table having more
\* than 4 rows, as the built-in one has), or when the generator throws, the
\* handler only logs: no blob, no tab, no exception out of the handler, and
\* the live document and the store stay as they were.
C5_GenerationFailure ==
    [][(\/ /\ last'.op = "generate"
           /\ LacksFixedField(designerDoc)
           /\ Len(tableData) > 4
        \/ last'.op = "generateRejected")
       => /\ last'.op = "generate" => (last'.call.threw /\ gen' = gen)
          /\ last'.logged = "PFD generation error:"
          /\ last'.blobUrlsCreated = 0
          /\ last'.tabsOpened = 0
          /\ ~last'.escaped
          /\ designerDoc' = designerDoc
          /\ store' = store]_vars

C5_Witness ==
    /\ Clicked /\ last.call.threw
    /\ Len(tableData) = 35
    /\ Len(designerDoc.schemas) = 1
    /\ "field114" \notin DOMAIN designerDoc.schemas[1]
    /\ last.logged = "PFD generation error:"
    /\ last.tabsOpened = 0

(***************************************************************************)
(* Properties of the page (checked under Spec).                            *)
(***************************************************************************)
\* two padding components are the same in JSON: NaN is written as null
JSONSame(a, b) == a = b \/ ({a, b} \subseteq {NaN, Null})

\* two template documents have the same JSON text
DeepEqualJSON(a, b) ==
    /\ DOMAIN a = DOMAIN b
    /\ a.schemas = b.schemas
    /\ DOMAIN a.basePdf = DOMAIN b.basePdf
    /\ \A k \in DOMAIN a.basePdf :
        IF k = "padding"
        THEN \A i \in 1..4 : JSONSame(a.basePdf.padding[i], b.basePdf.padding[i])
        ELSE a.basePdf[k] = b.basePdf[k]

\* JSON can express every number of the document
JSONExpressible(doc) ==
    "padding" \in DOMAIN doc.basePdf => \A i \in 1..4 : doc.basePdf.padding[i] # NaN

\* a is what reading b's JSON text gives
ReadBack(a, b) == DeepEqualJSON(a, b) /\ (JSONExpressible(b) => a = b)

\* the text under the store's `template` key, Undefined when there is none
StoredTemplate(st) == IF "template" \in DOMAIN st THEN st["template"] ELSE Undefined

\* C4: when the read of a file whose text is not JSON completes, the live
\* document, the store and everything else a later operation reads are as
\* they were before the upload (the change event only started the read); a
\* text that fails to parse is logged ("JSON Parsing Error:"), an empty file
\* is skipped without a parse, and nothing else happens: no callback, no
\* exception out of the handler.
C4_InvalidUpload ==
    [][/\ last'.op = "upload" =>
            /\ designerDoc' = designerDoc /\ store' = store
            /\ UNCHANGED <<phase, fontFetch, template, autosaveChecked, paddingInputs,
                           tableData, download, gen, out>>
       /\ (last'.op = "readerOnload" /\ "json" \notin DOMAIN last'.file.text) =>
            /\ designerDoc' = designerDoc /\ store' = store
            /\ UNCHANGED <<phase, fontFetch, template, autosaveChecked, paddingInputs,
                           tableData, download, gen, out, events>>
            /\ last'.logged = (IF "bad" \in DOMAIN last'.file.text
                               THEN "JSON Parsing Error:" ELSE "")
            /\ ~last'.escaped
            /\ last'.callbacks = 0
            /\ last'.blobUrlsCreated = 0 /\ last'.tabsOpened = 0]_vars

C4_Witness ==
    /\ last.op = "readerOnload"
    /\ "bad" \in DOMAIN last.file.text
    /\ last.logged = "JSON Parsing Error:"
    /\ ~last.escaped
    /\ designerDoc = StandardDoc
    /\ readers = <<>>

\* the text of a padding input denotes the finite number v
Denotes(value, v) == IsNum(v) /\ parseFloat(value) = v

\* C7: a change event with value v on padding input i (1..4 for top, right,
\* bottom, left) makes component i of the live document's padding tuple the
\* number v and leaves the other three components, the schema pages and the
\* rest of the document as they were.
C7_PaddingEdit ==
    [][last'.op = "padding" =>
        /\ "padding" \in DOMAIN designerDoc'.basePdf
        /\ Denotes(last'.value, designerDoc'.basePdf.padding[last'.i])
        /\ "padding" \in DOMAIN designerDoc.basePdf
        /\ \A j \in (1..4) \ {last'.i} :
            designerDoc'.basePdf.padding[j] = designerDoc.basePdf.padding[j]
        /\ designerDoc'.schemas = designerDoc.schemas
        /\ DOMAIN designerDoc'.basePdf = DOMAIN designerDoc.basePdf
        /\ \A k \in (DOMAIN designerDoc.basePdf) \ {"padding"} :
            designerDoc'.basePdf[k] = designerDoc.basePdf[k]]_vars

\* C8: after an edit in the widget (a change event) made while the autosave
\* control is on, the store's `template` key holds the serialization of the
\* widget's document; an edit made while the control is off leaves the key
\* as it was.
C8_Autosave ==
    [][/\ (last'.op = "widgetEdit" /\ autosaveChecked) =>
            /\ "template" \in DOMAIN store'
            /\ store'["template"] = getTemplateJSONStringOf(designerDoc')
       /\ (last'.op = "widgetEdit" /\ ~autosaveChecked) =>
            StoredTemplate(store') = StoredTemplate(store)]_vars

\* C9: a save click leaves under the store's `template` key the JSON text of
\* the document live at the click; when the startup constructs the widget
\* it gives it the document read from that key, and the built-in blank
\* document (BLANK_PDF, no schema page) when the key is absent.
C9_SaveAndLoad ==
    [][/\ last'.op = "save" =>
            /\ "template" \in DOMAIN store'
            /\ JSONparse(store'["template"]).ok
            /\ ReadBack(JSONparse(store'["template"]).value, designerDoc)
            /\ designerDoc' = designerDoc
       /\ (last'.op = "constructed" /\ "template" \in DOMAIN store) =>
            designerDoc' = JSONparse(store["template"]).value
       /\ (last'.op = "constructed" /\ "template" \notin DOMAIN store) =>
            /\ designerDoc'.schemas = <<>>
            /\ designerDoc' = [basePdf |-> BLANK_PDF, schemas |-> <<>>]]_vars

C9_Witness ==
    /\ last.op = "constructed"
    /\ events = 2
    /\ "template" \in DOMAIN store /\ "autosave" \notin DOMAIN store
    /\ designerDoc = JSONparse(store["template"]).value
    /\ Len(designerDoc.schemas) > 0
    /\ "period" \in DOMAIN designerDoc.schemas[1]
    /\ designerDoc.schemas[1]["period"].content = Str("edited")

\* a handler is suspended at an await, or its file read has not completed
InFlight == readers # <<>> \/ download # <<>> \/ gen # <<>>

\* the steps that start a handler
HandlerStarts == {"upload", "download", "save", "generate", "padding", "autosave"}

\* the steps that resume a suspended download or generate handler, and the
\* read error of an upload
Continuations ==
    {"downloadResolved", "downloadRejected", "generateResolved", "generateRejected",
     "readerOnerror"}

\* C10 (as stated): from the start of a handler until it has completed,
\* every step it awaits included, no other handler starts.
C10_OneActionInFlight ==
    [][InFlight => last'.op \notin HandlerStarts]_vars

\* C10 (as amended): while a handler is suspended at an await other
\* handlers start and change the live document and the store; the suspended
\* handler itself, when it resumes (the continuations of a download and of
\* a generation, and the read error of an upload), changes neither.
C10_Suspended ==
    [][last'.op \in Continuations => (designerDoc' = designerDoc /\ store' = store)]_vars

\* a download has completed, and since its click a padding edit or an
\* upload has changed the base document
C10_Witness ==
    /\ last.op = "downloadResolved"
    /\ last.stage = "close"
    /\ \E f \in out :
        /\ f.text = last.json
        /\ f.from.basePdf # designerDoc.basePdf

\* the steps of the startup: the script starts, a font fetch settles, the
\* then-callback runs
StartupSteps == {"startup", "fontFetched", "fontBodyRead", "fontFailed", "constructed"}

\* C11: the step that constructs the widget and registers the handlers is
\* the step in which the last of the two font bodies arrives: after it both
\* fetches have completed.  Until then, and for as long as the page stays
\* loaded after a fetch has failed, there is no widget, no handler step
\* runs, and the store is not written.
C11_StartupOrdering ==
    [][/\ last'.op = "constructed" =>
            /\ \A f \in Fonts : fontFetch'[f] = "done"
            /\ \E f \in Fonts : fontFetch[f] = "response"
            /\ IsUndefined(designerDoc) /\ ~IsUndefined(designerDoc')
       /\ phase' \in {"ready", "partial"} => \A f \in Fonts : fontFetch'[f] = "done"
       /\ phase \in {"loading", "failed"} =>
            /\ IsUndefined(designerDoc)
            /\ last'.op \in StartupSteps
            /\ store' = store
            /\ readers' = <<>> /\ download' = <<>> /\ gen' = <<>>
       /\ ((\E f \in Fonts : fontFetch[f] = "failed") /\ last'.op # "startup") =>
            /\ phase' = "failed"
            /\ IsUndefined(designerDoc')]_vars

C11_Witness ==
    /\ phase = "failed"
    /\ \E f \in Fonts : fontFetch[f] = "done"
    /\ \E f \in Fonts : fontFetch[f] = "failed"
    /\ IsUndefined(designerDoc)
    /\ "template" \in DOMAIN store
    /\ last.op = "fontFailed"

\* the steps of a generate run: the click, and the end of the generator
GenerateSteps == {"generate", "generateResolved", "generateRejected"}

\* C12: no step of a generate run, successful or failed, changes the
\* widget's live document or either key of the store: the pages added, the
\* footer positions and the `pages` label are written to the JSON copy that
\* is handed to the generator.
C12_GenerateFrame ==
    [][last'.op \in GenerateSteps =>
        /\ designerDoc' = designerDoc
        /\ store' = store
        /\ autosaveChecked' = autosaveChecked
        /\ last'.callbacks = 0
        /\ (last'.op = "generate" /\ ~last'.call.threw) =>
            /\ Len(last'.call.template.schemas) >= Len(designerDoc'.schemas)
            /\ DeepEqualJSON([last'.call.template EXCEPT !.schemas = designerDoc'.schemas],
                             designerDoc')]_vars

C12_Witness ==
    /\ Clicked /\ ~last.call.threw
    /\ "template" \in DOMAIN store
    /\ Len(designerDoc.schemas) = 1
    /\ Len(last.call.template.schemas) = 6
    /\ designerDoc.schemas[1]["pages"].content = Str("Page X of Y")
    /\ last.call.template.schemas[1]["pages"].content = Str("Page 1 of 6")
    /\ designerDoc.schemas[1]["footer_el_1"].position.y = LayoutY("footer_el_1")
    /\ last.call.template.schemas[1]["footer_el_1"].position.y # LayoutY("footer_el_1")

(***************************************************************************)
(* Further properties of the generate handler (checked under SpecGen).     *)
(***************************************************************************)
\* a click that handed a document and a value map to the generator
Generated == Clicked /\ ~last.call.threw

\* the first page of the live document, and of the document generated
LivePage == designerDoc.schemas[1]
Page1 == last.call.template.schemas[1]

\* the pages the handler added: 2..T when the table has more than 4 rows
AddedPages ==
    IF Len(tableData) > 4 THEN 2..(1 + CeilDiv(Len(tableData) - 4, 7)) ELSE {}

\* page_N_header_el_i and page_N_footer_el_i
HeaderClone(N, i) == "page_" \o ToString(N) \o "_header_el_" \o ToString(i)
FooterClone(N, i) == "page_" \o ToString(N) \o "_footer_el_" \o ToString(i)
HrClone(N, i) == "page_" \o ToString(N) \o "_table_hr_" \o ToString(i)

\* the keys the pagination step itself puts into the value map
PaginationKeys ==
    {"table", "pages"}
    \cup {HeaderClone(N, 11) : N \in AddedPages} \cup {HeaderClone(N, 7) : N \in AddedPages}
    \cup {HeaderClone(N, 10) : N \in AddedPages} \cup {FooterClone(N, 4) : N \in AddedPages}

\* the text-typed fields of the live document's first page
TextFields == {k \in DOMAIN LivePage : LivePage[k].type = "text"}

\* the field of the generated document that a key of the value map names
NamedField(k) ==
    IF k \in DOMAIN Page1 THEN Page1[k]
    ELSE LET N == CHOOSE M \in AddedPages : k \in DOMAIN last.call.template.schemas[M]
         IN  last.call.template.schemas[N][k]

\* C13 (as stated): every key of the value map names a field whose type is
\* `text`; a field of any other type contributes no entry.
C13_OnlyTextFields ==
    Generated =>
        \A k \in DOMAIN last.call.inputs :
            /\ k \in DOMAIN Page1 \/ \E N \in AddedPages : k \in DOMAIN last.call.template.schemas[N]
            /\ NamedField(k).type = "text"

\* C13 (as amended): the value map holds exactly the keys the pagination
\* step assigns, whatever the type of the fields they name (`table`,
\* `pages` and, per added page N, page_N_header_el_11, _7, _10 and
\* page_N_footer_el_4), and the text-typed fields of page 1; a field of
\* page 1 of another type, other than `table` and `pages`, has no entry.
C13_ValueMapKeys ==
    Generated =>
        /\ DOMAIN last.call.inputs = PaginationKeys \cup TextFields
        /\ \A k \in DOMAIN LivePage :
            (LivePage[k].type # "text" /\ k \notin {"table", "pages"}) =>
                k \notin DOMAIN last.call.inputs

C13_Witness ==
    /\ Generated /\ OnePageFullDoc /\ Len(tableData) = 35
    /\ LivePage["table"].type = "table"
    /\ LivePage["pages"].type = "readOnlyText"
    /\ {"table", "pages", "page_6_header_el_11", "page_6_footer_el_4", "field1", "period"}
            \subseteq DOMAIN last.call.inputs
    /\ {"logo", "field2", "field28", "header_rect"} \cap DOMAIN last.call.inputs = {}

(***************************************************************************)
(* Further properties of the page (checked under Spec).                    *)
(***************************************************************************)
\* C14: a download click takes one path.  With the native save-file
\* capability the handler is suspended at the save dialog and creates no
\* blob URL, and the file is written when close() has resolved; without it
\* one blob URL is created, the anchor named template.json is clicked and
\* the blob URL is released within the click.  When the dialog or a write
\* of the native path fails the handler only logs: no blob URL, no file,
\* nothing out of the handler, and the live document and the store are as
\* they were.
C14_ExportPath ==
    [][/\ last'.op \in {"download", "downloadResolved", "downloadRejected"} =>
            /\ designerDoc' = designerDoc /\ store' = store
            /\ ~last'.escaped /\ last'.tabsOpened = 0 /\ last'.callbacks = 0
       /\ (last'.op = "download" /\ last'.native) =>
            /\ last'.blobUrlsCreated = 0 /\ last'.blobUrlsRevoked = 0
            /\ out' = out
            /\ Len(download') = Len(download) + 1
            /\ download'[Len(download')].stage = 1
            /\ last'.logged = ""
       /\ (last'.op = "download" /\ ~last'.native) =>
            /\ last'.blobUrlsCreated = 1 /\ last'.blobUrlsRevoked = 1
            /\ last'.anchor = "template.json"
            /\ out' = out \cup {File(last'.json, designerDoc)}
            /\ download' = download
            /\ last'.logged = ""
       /\ last'.op = "downloadResolved" =>
            /\ last'.blobUrlsCreated = 0 /\ last'.blobUrlsRevoked = 0
            /\ last'.logged = ""
            /\ out' # out => last'.stage = "close"
            /\ last'.stage = "close" =>
                (Len(download') = Len(download) - 1 /\ \E f \in out' : f.text = last'.json)
       /\ last'.op = "downloadRejected" =>
            /\ last'.logged = "File save error:"
            /\ last'.blobUrlsCreated = 0 /\ last'.blobUrlsRevoked = 0
            /\ out' = out
            /\ Len(download') = Len(download) - 1]_vars

C14_Witness ==
    /\ last.op = "downloadRejected"
    /\ last.stage = "write"
    /\ last.logged = "File save error:"
    /\ last.blobUrlsCreated = 0
    /\ out = {}
    /\ download = <<>>

\* the live document has no padding tuple
NoPaddingTuple(doc) == "padding" \notin DOMAIN doc.basePdf

\* C15: when the widget is constructed with a base document without a
\* padding tuple the four padding inputs show 0; a change of input i to the
\* value v then makes v component i of the live document's padding and
\* pushes the document into the widget, nothing escaping the handler.
C15_PaddingDefault ==
    [][/\ (last'.op = "constructed" /\ NoPaddingTuple(designerDoc')) =>
            paddingInputs' = [i \in 1..4 |-> <<"0">>]
       /\ (last'.op = "padding" /\ NoPaddingTuple(designerDoc)) =>
            /\ ~last'.escaped
            /\ ~NoPaddingTuple(designerDoc')
            /\ Denotes(last'.value, designerDoc'.basePdf.padding[last'.i])]_vars

(***************************************************************************)
(* Properties of the value map and of the added pages (checked under       *)
(* SpecGen).                                                               *)
(***************************************************************************)
\* the rows of page 1, and the page total
Page1Rows == SubSeq(tableData, 1, Min(4, Len(tableData)))
PageTotal == IF Len(tableData) > 4 THEN 1 + CeilDiv(Len(tableData) - 4, 7) ELSE 1

\* C16: after the text-field loop the `table` entry of the value map is
\* the JSON of page 1's rows and the `pages` entry is the label the
\* pagination step assigned, whatever the type and stored content of the
\* `table` and `pages` fields; every other text-typed field k of page 1 has
\* its content under key k.
C16_RemainingTextFields ==
    (Generated /\ OnePageFullDoc) =>
        /\ last.call.inputs["table"] = [json |-> Page1Rows]
        /\ last.call.inputs["pages"] = Label(1, PageTotal)
        /\ \A k \in TextFields \ {"table", "pages"} :
            last.call.inputs[k] = LivePage[k].content

\* the field with its vertical position left out of account
SameButY(clone, original) == [clone EXCEPT !.position.y = original.position.y] = original

\* schema page N of the document generated
AddedSchema(N) == last.call.template.schemas[N]

\* C17: every added page N = 2..T has exactly 102 fields: the clones of the
\* 11 header elements under page_N_header_el_1..11, of the 4 footer elements
\* under page_N_footer_el_1..4 and of field28..field114, in order, under
\* page_N_table_hr_1..87.  page_N_header_el_11 is the clone of `table`,
\* page_N_header_el_7 the clone of `period` and its value the content of
\* `period`, page_N_header_el_10 the clone of `table_period` and its value
\* the content of `table_period`, page_N_footer_el_4 the clone of `pages`.
C17_AddedPageStructure ==
    (Generated /\ Len(tableData) > 4) =>
        /\ AddedPages # {}
        /\ \A N \in AddedPages :
            /\ N <= Len(last.call.template.schemas)
            /\ DOMAIN AddedSchema(N) =
                    {HeaderClone(N, i) : i \in 1..11} \cup {FooterClone(N, i) : i \in 1..4}
                    \cup {HrClone(N, i) : i \in 1..87}
            /\ Cardinality(DOMAIN AddedSchema(N)) = 102
            /\ \A i \in 1..11 : SameButY(AddedSchema(N)[HeaderClone(N, i)], LivePage[HeaderKeys[i]])
            /\ \A i \in 1..4 : SameButY(AddedSchema(N)[FooterClone(N, i)], LivePage[FooterKeys[i]])
            /\ \A i \in 1..87 :
                SameButY(AddedSchema(N)[HrClone(N, i)], LivePage["field" \o ToString(27 + i)])
            /\ SameButY(AddedSchema(N)[HeaderClone(N, 11)], LivePage["table"])
            /\ SameButY(AddedSchema(N)[HeaderClone(N, 7)], LivePage["period"])
            /\ SameButY(AddedSchema(N)[HeaderClone(N, 10)], LivePage["table_period"])
            /\ SameButY(AddedSchema(N)[FooterClone(N, 4)], LivePage["pages"])
            /\ last.call.inputs[HeaderClone(N, 7)] = LivePage["period"].content
            /\ last.call.inputs[HeaderClone(N, 10)] = LivePage["table_period"].content
            /\ "json" \in DOMAIN last.call.inputs[HeaderClone(N, 11)]
            /\ last.call.inputs[FooterClone(N, 4)] = Label(N, PageTotal)

C17_Witness ==
    /\ Generated /\ Len(tableData) = 35
    /\ Len(designerDoc.schemas) = 3
    /\ AddedPages = 2..6
    /\ Cardinality(DOMAIN AddedSchema(6)) = 102
    /\ AddedSchema(2)["page_2_header_el_7"].content = Str("<period>")
    /\ AddedSchema(6)["page_6_table_hr_87"].content = Str("<field114>")
    /\ last.call.inputs["page_6_header_el_10"] = Str("<table_period>")

\* vertical positions in tenths of a unit, as the claim lists them
HeaderYs == <<100, 200, 224, 150, 430, 450, 510, 650, 690, 690, 770>>
FooterYs == <<2150, 2310, 2290, 2400>>
Page1FooterAnchor ==
    2770 - 210 * ((IF Len(tableData) > 4 THEN 4 ELSE Len(tableData)) - 1)

\* C18: on every added page the 11 header clones sit at 10, 20, 22.4, 15,
\* 43, 45, 51, 65, 69, 69, 77, the 4 footer clones at 215, 231, 229, 240 and
\* the 87 hr clones at 90; the footer elements of page 1 sit at
\* 277 - 21*(r-1) plus 0, 16, 14, 25, r being 4 for a table of more than 4
\* rows and the row count otherwise.
C18_VerticalPositions ==
    Generated =>
        /\ \A i \in 1..4 :
            Page1[FooterKeys[i]].position.y = Page1FooterAnchor + <<0, 160, 140, 250>>[i]
        /\ \A N \in AddedPages :
            /\ \A i \in 1..11 : AddedSchema(N)[HeaderClone(N, i)].position.y = HeaderYs[i]
            /\ \A i \in 1..4 : AddedSchema(N)[FooterClone(N, i)].position.y = FooterYs[i]
            /\ \A i \in 1..87 : AddedSchema(N)[HrClone(N, i)].position.y = 900

C18_Witness ==
    /\ Generated /\ Len(tableData) = 12
    /\ AddedPages = {2, 3}
    /\ AddedSchema(3)["page_3_header_el_3"].position.y = 224
    /\ AddedSchema(2)["page_2_footer_el_2"].position.y = 2310
    /\ Page1["pages"].position.y = 2390
    /\ LivePage["pages"].position.y = 2683

\* the pages of the generated document the pagination did not build
UntouchedPages ==
    {M \in 2..Len(last.call.template.schemas) : M \notin AddedPages}

\* C19: once the added pages are built, the header elements of page 1 have
\* the vertical positions of the template, its footer elements the positions
\* anchored at 277 - 21*3, field28..field114 their template positions; every
\* clone differs from the element it was copied from in position.y only; no
\* other element of any page has changed.
C19_ClonesIndependent ==
    (Generated /\ Len(tableData) > 4) =>
        /\ DOMAIN Page1 = DOMAIN LivePage
        /\ \A i \in 1..11 : Page1[HeaderKeys[i]] = LivePage[HeaderKeys[i]]
        /\ \A i \in 1..4 :
            Page1[FooterKeys[i]].position.y = 2770 - 210 * 3 + <<0, 160, 140, 250>>[i]
        /\ \A i \in 1..3 : SameButY(Page1[FooterKeys[i]], LivePage[FooterKeys[i]])
        /\ \A i \in 28..114 :
            Page1["field" \o ToString(i)] = LivePage["field" \o ToString(i)]
        /\ \A k \in DOMAIN Page1 : k \notin {FooterKeys[i] : i \in 1..4} => Page1[k] = LivePage[k]
        /\ \A N \in AddedPages :
            /\ \A i \in 1..11 :
                [AddedSchema(N)[HeaderClone(N, i)] EXCEPT !.position.y = 0]
                    = [Page1[HeaderKeys[i]] EXCEPT !.position.y = 0]
            /\ \A i \in 1..3 :
                [AddedSchema(N)[FooterClone(N, i)] EXCEPT !.position.y = 0]
                    = [Page1[FooterKeys[i]] EXCEPT !.position.y = 0]
            /\ [AddedSchema(N)[FooterClone(N, 4)] EXCEPT !.position.y = 0]
                    = [LivePage["pages"] EXCEPT !.position.y = 0]
            /\ \A i \in 1..87 :
                [AddedSchema(N)[HrClone(N, i)] EXCEPT !.position.y = 0]
                    = [Page1["field" \o ToString(27 + i)] EXCEPT !.position.y = 0]
            /\ \A M \in AddedPages :
                \A i \in 1..11 :
                    AddedSchema(M)[HeaderClone(M, i)] = AddedSchema(N)[HeaderClone(N, i)]
        /\ \A M \in UntouchedPages : last.call.template.schemas[M] = designerDoc.schemas[M]

C19_Witness ==
    /\ Generated /\ Len(tableData) = 11
    /\ Len(designerDoc.schemas) = 3
    /\ AddedPages = {2} /\ UntouchedPages = {3}
    /\ Page1["header_rect"].position.y = 33
    /\ AddedSchema(2)["page_2_header_el_1"].position.y = 100
    /\ Page1["field28"].position.y = 1007
    /\ AddedSchema(2)["page_2_table_hr_1"].position.y = 900
    /\ Page1["footer_el_1"].position.y = 2140
    /\ AddedSchema(2)["page_2_footer_el_1"].position.y = 2150

(***************************************************************************)
(* The autosave flag (checked under Spec).                                 *)
(***************************************************************************)
\* the store with its `autosave` key left out of account
StoreButAutosave(st) == [k \in (DOMAIN st) \ {"autosave"} |-> st[k]]

\* C20 as stated: in every state the store key `autosave` is present exactly
\* when the autosave control is checked.
C20_AsStated == autosaveChecked = ("autosave" \in DOMAIN store)

\* C20: in every state in which the startup has constructed the widget,
\* whatever toggles and reloads came before, the store key `autosave` is
\* present exactly when the autosave control is checked; a toggle of the
\* control changes that key only, never the `template` key, the rest of the
\* store or the live document.
C20_AutosaveFlag ==
    [][/\ Handlers' => (autosaveChecked' = ("autosave" \in DOMAIN store'))
       /\ (last'.op = "autosave" /\ events' # events) =>
            /\ StoreButAutosave(store') = StoreButAutosave(store)
            /\ ("autosave" \in DOMAIN store') # ("autosave" \in DOMAIN store)
            /\ designerDoc' = designerDoc
            /\ template' = template]_vars

C20_Witness ==
    /\ Handlers
    /\ last.op = "autosave"
    /\ ~autosaveChecked
    /\ "autosave" \notin DOMAIN store
    /\ "template" \in DOMAIN store

(***************************************************************************)
(* The padding inputs and the export (checked under Spec).                 *)
(***************************************************************************)
\* padding input i shows component i of the document's padding
ShowsPadding(doc, i) ==
    /\ "padding" \in DOMAIN doc.basePdf
    /\ Denotes(paddingInputs[i], doc.basePdf.padding[i])

\* C21: in every state with the widget constructed, after any padding
\* edits, uploads of valid documents, saves and generate runs, padding input
\* i (top, right, bottom, left) shows component i of the live document's
\* padding.
C21_PaddingMirror ==
    Handlers => \A i \in 1..4 : ShowsPadding(designerDoc, i)

\* the keys the pagination gives the fields of added page N
SynthesizedKeys(N) ==
    {HeaderClone(N, i) : i \in 1..11} \cup {FooterClone(N, i) : i \in 1..4}
    \cup {HrClone(N, i) : i \in 1..87}

\* C22: for every live template, of one schema page or of more, the document
\* handed to the generator has as many schema pages as the total T of the
\* page labels (1 + ceil((n-4)/7) for n > 4 rows, 1 otherwise), and every
\* schema page after the first holds synthesized page_N_* fields only.
C22_PageTotalMatches ==
    Generated =>
        /\ Len(last.call.template.schemas) = PageTotal
        /\ \A N \in 2..Len(last.call.template.schemas) :
            DOMAIN AddedSchema(N) \subseteq SynthesizedKeys(N)

\* the steps of an export: the click and what follows its awaits
ExportSteps == {"download", "downloadResolved", "downloadRejected"}

\* C23: the text an export writes is the serialization of the document that
\* was live when the download click was handled: the click serializes the
\* live document, every pending export keeps that text through whatever
\* happens to the live document while the save dialog or the write is
\* pending, the file closed holds it, and no step of an export alters the
\* live document or the store.
C23_ExportSnapshot ==
    [][/\ last'.op = "download" =>
            /\ last'.json = JSONstringifyTemplate(designerDoc)
            /\ last'.native =>
                download'[Len(download')] =
                    [stage |-> 1, json |-> JSONstringifyTemplate(designerDoc),
                     from |-> designerDoc]
            /\ ~last'.native => out' = out \cup {File(JSONstringifyTemplate(designerDoc), designerDoc)}
       /\ \A i \in DOMAIN download' :
            download'[i].json = JSONstringifyTemplate(download'[i].from)
       /\ (designerDoc' # designerDoc /\ last'.op # "startup") =>   \* the page stays loaded
            /\ download' = download
            /\ out' = out
       /\ \A f \in out' \ out :
            /\ f.text = JSONstringifyTemplate(f.from)
            /\ last'.op = "downloadResolved" =>
                \E i \in DOMAIN download :
                    /\ f.from = download[i].from
                    /\ download' = Without(download, i)
       /\ last'.op \in ExportSteps => (designerDoc' = designerDoc /\ store' = store)]_vars

C23_Witness ==
    /\ last.op = "downloadResolved"
    /\ last.stage = "close"
    /\ download = <<>>
    /\ \E f \in out :
        /\ f.text = last.json
        /\ f.text = JSONstringifyTemplate(f.from)
        /\ f.text # getTemplateJSONString
        /\ f.from.basePdf # designerDoc.basePdf

====
